---- MODULE Spec2Model ----
(***************************************************************************)
(* pygate: the bounded repair loop (execute_repair) with its workspace     *)
(* checkpoint / rollback, the deterministic fix engine, the gate runner    *)
(* and the summarizer it calls.                                            *)
(***************************************************************************)
EXTENDS Integers, Sequences, FiniteSets, TLC

VARIABLES
    config,          \* load_config(cwd): policy and gate flags
    git_ok,          \* `git diff --numstat` works in cwd
    ws,              \* the project workspace: path -> file content
    backups,         \* .pygate/backup-attempt-N: attempt -> checkpointed tree
    pygate_files,    \* artifacts under .pygate written by the session
    pc,              \* position inside execute_repair
    attempt_num,     \* loop variable of execute_repair
    previous_count,  \* baseline finding count
    no_improvement,  \* consecutive-no-improvement counter
    attempts,        \* list[RepairAttempt]
    failures,        \* the current FailuresPayload
    elapsed,         \* last reading of time.monotonic() - started, in ticks
    before_snap,     \* _diff_snapshot taken before the fix step
    actions,         \* result of run_deterministic_prefix in this attempt
    patch_lines,     \* _compute_patch_lines of this attempt
    rerun,           \* FailuresPayload of this attempt's gate re-run
    result,          \* return value of execute_repair
    n_runs,          \* gate runs so far (source of fresh run ids)
    log,             \* external effects in order: commands run, files written
    exit_status      \* exit status of the pygate process (cli.main)

vars == <<config, git_ok, ws, backups, pygate_files, pc, attempt_num,
          previous_count, no_improvement, attempts, failures, elapsed,
          before_snap, actions, patch_lines, rerun, result, n_runs, log,
          exit_status>>

----------------------------------------------------------------------------
(* Bounds of the model *)

MaxAttempts == 3      \* largest max_attempts explored
\* number of files offered to the fix engine
MaxOffered == 30
\* findings of a summarized snapshot, and files of one finding
MaxSummarized == 3
MaxFindingFiles == 5
MaxLint == 2          \* largest number of lint findings one gate run reports
MaxClock == 3         \* largest clock reading, in ticks
TicksPerSecond == 2   \* clock resolution: ticks in one second

----------------------------------------------------------------------------
(* Small helpers *)

Range(s) == {s[i] : i \in 1..Len(s)}

Min(a, b) == IF a < b THEN a ELSE b

Abs(x) == IF x < 0 THEN 0 - x ELSE x

RECURSIVE SumOver(_, _)
SumOver(S, f) ==
    IF S = {} THEN 0
    ELSE LET x == CHOOSE y \in S : TRUE IN f[x] + SumOver(S \ {x}, f)

RECURSIVE Concat(_)
Concat(ss) == IF ss = <<>> THEN <<>> ELSE Head(ss) \o Concat(Tail(ss))

CountOp(l, op) == Cardinality({i \in 1..Len(l) : l[i].op = op})

NoFile == [absent |-> TRUE]
NoValue == [none |-> TRUE]
EmptyTree == [p \in {} |-> 0]

----------------------------------------------------------------------------
(* constants.py *)

FAILURES_FILE == <<".pygate", "failures.json">>

NO_IMPROVEMENT == "NO_IMPROVEMENT"
PATCH_BUDGET_EXCEEDED == "PATCH_BUDGET_EXCEEDED"
UNKNOWN_BLOCKER == "UNKNOWN_BLOCKER"
UNRESOLVED_DETERMINISTIC_FAILURES == "UNRESOLVED_DETERMINISTIC_FAILURES"

----------------------------------------------------------------------------
(* The workspace: paths are sequences of names *)

WsA == <<"a.py">>
WsB == <<"pkg", "b.py">>
WsCache == <<"pkg", "__pycache__", "b.pyc">>
WsGit == <<".git", "HEAD">>

\* content: by = the attempt whose fix commands wrote it (0 = original),
\* d = added+removed lines `git diff --numstat` reports for the file
Original == [by |-> 0, d |-> 0]

InitialWorkspace ==
    [p \in {WsA, WsB, WsCache, WsGit} |-> Original]

BACKUP_EXCLUDES ==
    {".pygate", ".git", "__pycache__", ".venv", ".tox", ".nox", "dist", "node_modules"}

\* shutil.copytree(..., ignore=ignore_patterns(*_BACKUP_EXCLUDES)): a name
\* that matches is skipped at every depth
BackupWorkspace(tree) ==
    LET kept == {p \in DOMAIN tree : \A i \in 1..Len(p) : p[i] \notin BACKUP_EXCLUDES}
    IN [p \in kept |-> tree[p]]

\* a rollback that restores nothing
RestoreWorkspace_Skipped(tree, backup) == tree

\* every top-level item not named in the excludes is removed whole, then the
\* backup's top-level items are copied back
RestoreWorkspace(tree, backup) ==
    LET survive == {p \in DOMAIN tree : p[1] \in BACKUP_EXCLUDES}
    IN [p \in survive \cup DOMAIN backup |->
            IF p \in DOMAIN backup THEN backup[p] ELSE tree[p]]

\* git diff --numstat -- . ':(exclude).pygate' ':(exclude)__pycache__' ':(exclude).venv'
DiffSnapshot(tree, git) ==
    IF ~git THEN EmptyTree
    ELSE LET shown == {p \in DOMAIN tree :
                          /\ tree[p].d > 0
                          /\ p[1] \notin {".pygate", "__pycache__", ".venv"}}
         IN [p \in shown |-> tree[p].d]

ComputePatchLines(before, after) ==
    LET all_files == DOMAIN before \cup DOMAIN after
        get(m, f) == IF f \in DOMAIN m THEN m[f] ELSE 0
        delta == [f \in all_files |-> Abs(get(after, f) - get(before, f))]
    IN SumOver(all_files, delta)

----------------------------------------------------------------------------
(* config.py *)

DEFAULT_POLICY ==
    [max_attempts |-> 3, max_patch_lines |-> 150, abort_on_no_improvement |-> 2,
     time_cap_seconds |-> 1200]

PygateToml == <<"pygate.toml">>
Pyproject == <<"pyproject.toml">>

\* a TOML table is a function from its keys; {} in Python is the empty table
EmptyTable == [k \in {} |-> 0]

\* table.get(key, {})
GetTable(table, key) == IF key \in DOMAIN table THEN table[key] ELSE EmptyTable

Defaults ==
    [policy |-> DEFAULT_POLICY, commands |-> EmptyTable, gates |-> EmptyTable,
     source |-> "defaults"]

\* a merge in which the built-in defaults win over the file
MergeConfig_DefaultsWin(user, source) ==
    [policy |-> Defaults.policy @@ GetTable(user, "policy"),
     commands |-> GetTable(user, "commands"),
     gates |-> Defaults.gates @@ GetTable(user, "gates"),
     source |-> source]

\* {**defaults, **user}: the keys of the file win
MergeConfig(user, source) ==
    [policy |-> GetTable(user, "policy") @@ Defaults.policy,
     commands |-> GetTable(user, "commands"),
     gates |-> GetTable(user, "gates") @@ Defaults.gates,
     source |-> source]

\* tree: the TOML files under cwd, each with its parsed table
LoadConfig(tree) ==
    IF PygateToml \in DOMAIN tree
    THEN MergeConfig(tree[PygateToml], PygateToml)
    ELSE IF Pyproject \in DOMAIN tree
            /\ GetTable(GetTable(tree[Pyproject], "tool"), "pygate") # EmptyTable
         THEN MergeConfig(GetTable(GetTable(tree[Pyproject], "tool"), "pygate"), Pyproject)
         ELSE Defaults

----------------------------------------------------------------------------
(* deterministic_fix.py *)

MAX_FILES == 20

PyNames == {"a.py", "b.py", "x.py"}

EXCLUDED_DIRS ==
    {".pygate", ".git", ".venv", ".tox", ".nox", "__pycache__", "dist", "build",
     "node_modules"}

IsEligible(path) ==
    /\ Len(path) > 0
    /\ path[Len(path)] \in PyNames
    /\ ~ \E i \in 1..Len(path) : path[i] \in EXCLUDED_DIRS
    /\ ~ (path[1] = "/" \/ \E i \in 1..Len(path) : path[i] = "..")

RECURSIVE AddEligible(_, _)
AddEligible(files, candidates) ==
    IF candidates = <<>> THEN files
    ELSE IF Head(candidates) \notin Range(files) /\ IsEligible(Head(candidates))
         THEN AddEligible(Append(files, Head(candidates)), Tail(candidates))
         ELSE AddEligible(files, Tail(candidates))

\* a collection without the final files[:_MAX_FILES]
CollectScopedFiles_Uncapped(fl) ==
    LET from_changed == AddEligible(<<>>, fl.changed_files)
        finding_files == Concat([i \in 1..Len(fl.findings) |-> fl.findings[i].files])
    IN AddEligible(from_changed, finding_files)

CollectScopedFiles(fl) ==
    LET from_changed == AddEligible(<<>>, fl.changed_files)
        finding_files == Concat([i \in 1..Len(fl.findings) |-> fl.findings[i].files])
        files == AddEligible(from_changed, finding_files)
    IN SubSeq(files, 1, Min(Len(files), MAX_FILES))

\* a check that takes a finding of any gate for a lint failure
HasLintFailure_AnyGate(fl) == fl.findings # <<>>

HasLintFailure(fl) == \E i \in 1..Len(fl.findings) : fl.findings[i].gate = "lint"

\* a prefix whose fix pass is accepted on exit code 0 only
RunDeterministicPrefix_FixStrict(fl, fix_exit, fmt_exit) ==
    IF ~HasLintFailure(fl) THEN <<>>
    ELSE LET scoped_files == CollectScopedFiles(fl)
         IN IF scoped_files = <<>> THEN <<>>
            ELSE << [rule_id |-> "RUFF_AUTOFIX",
                     accepted |-> fix_exit = 0,
                     exit_code |-> fix_exit,
                     files |-> scoped_files],
                    [rule_id |-> "RUFF_FORMAT",
                     accepted |-> fmt_exit = 0,
                     exit_code |-> fmt_exit,
                     files |-> scoped_files] >>

RunDeterministicPrefix(fl, fix_exit, fmt_exit) ==
    IF ~HasLintFailure(fl) THEN <<>>
    ELSE LET scoped_files == CollectScopedFiles(fl)
         IN IF scoped_files = <<>> THEN <<>>
            ELSE << [rule_id |-> "RUFF_AUTOFIX",
                     accepted |-> fix_exit \in {0, 1},
                     exit_code |-> fix_exit,
                     files |-> scoped_files],
                    [rule_id |-> "RUFF_FORMAT",
                     accepted |-> fmt_exit = 0,
                     exit_code |-> fmt_exit,
                     files |-> scoped_files] >>

----------------------------------------------------------------------------
(* gates/ruff.py, gates/pyright.py, gates/pytest_gate.py: the adapters *)

\* what a gate command leaves for its adapter: text that is not JSON, a JSON
\* list, or a JSON object
NotJson == [kind |-> "text"]
JsonList(items) == [kind |-> "list", items |-> items]
JsonDict(key, items) == [kind |-> "dict", key |-> key, items |-> items]

\* the project directory; the checkers report absolute file names
Cwd == <<"/", "repo">>

\* str(Path(filename).relative_to(cwd)), or the name itself on ValueError
RelativeTo(filename) ==
    IF Len(filename) > Len(Cwd) /\ SubSeq(filename, 1, Len(Cwd)) = Cwd
    THEN SubSeq(filename, Len(Cwd) + 1, Len(filename))
    ELSE filename

Upper(letter) ==
    CASE letter = "e" -> "E"
      [] letter = "f" -> "F"
      [] letter = "w" -> "W"
      [] OTHER -> letter

\* a mapping that compares the prefix without code[0].upper()
SeverityForCode_CaseSensitive(code) ==
    IF code = <<>> THEN "medium"
    ELSE IF code[1] \in {"E", "F"} THEN "high" ELSE "medium"

\* a rule code is its letter followed by its number; <<>> is the empty code
SeverityForCode(code) ==
    IF code = <<>> THEN "medium"
    ELSE LET prefix == Upper(code[1])
         IN IF prefix \in {"E", "F"} THEN "high"
            ELSE IF prefix = "W" THEN "medium"
            ELSE "medium"

\* idx = len(findings): the position in the list
RuffIndex(violations, n) == n - 1

ParseRuffOutput(stdout) ==
    IF stdout.kind # "list" THEN <<>>
    ELSE LET violations == stdout.items
         IN [n \in 1..Len(violations) |->
               LET v == violations[n]
                   rel_path == RelativeTo(v.filename)
               IN [id |-> <<"ruff", v.code, rel_path, v.row, RuffIndex(violations, n)>>,
                   gate |-> "lint",
                   severity |-> SeverityForCode(v.code),
                   files |-> <<rel_path>>,
                   rule |-> v.code,
                   line |-> v.row]]

MapSeverity(pyright_severity) ==
    CASE pyright_severity = "error" -> "high"
      [] pyright_severity = "warning" -> "medium"
      [] pyright_severity = "information" -> "low"
      [] OTHER -> "medium"

NotInformation(d) == d.severity # "information"

\* rule <<>> stands for a diagnostic without a rule
ParsePyrightOutput(stdout) ==
    IF stdout.kind # "dict" THEN <<>>
    ELSE LET diagnostics == IF stdout.key = "generalDiagnostics"
                            THEN SelectSeq(stdout.items, NotInformation)
                            ELSE <<>>
         IN [n \in 1..Len(diagnostics) |->
               LET d == diagnostics[n]
                   rel_path == RelativeTo(d.file)
                   line == d.line + 1
               IN [id |-> IF d.rule # <<>> THEN <<"pyright", d.rule, rel_path, line>>
                          ELSE <<"pyright", rel_path, line>>,
                   gate |-> "typecheck",
                   severity |-> MapSeverity(d.severity),
                   files |-> <<rel_path>>,
                   rule |-> d.rule,
                   line |-> line]]

FailedOrError(test) == test.outcome \in {"failed", "error"}

\* a nodeid is <<file path, test name>>, or <<file path>> without "::";
\* safe_id replaces "::" and "/" by "_", which joins all the names
SafeId(nodeid) == IF Len(nodeid) = 2 THEN nodeid[1] \o <<nodeid[2]>> ELSE nodeid[1]

ParsePytestOutput(report) ==
    IF report.kind # "dict" THEN <<>>
    ELSE LET tests == IF report.key = "tests"
                      THEN SelectSeq(report.items, FailedOrError)
                      ELSE <<>>
         IN [n \in 1..Len(tests) |->
               LET file_part == tests[n].nodeid[1]
               IN [id |-> <<"pytest", SafeId(tests[n].nodeid)>>,
                   gate |-> "test",
                   severity |-> "high",
                   files |-> IF file_part # <<>> THEN <<file_part>> ELSE <<>>,
                   rule |-> <<>>,
                   line |-> 0]]

----------------------------------------------------------------------------
(* gates/__init__.py and run_command.py *)

\* a plan that runs the test gate first
GatePlan_TestFirst(mode, test_in_canary) ==
    << [gate |-> "test", enabled |-> (mode = "full" \/ test_in_canary)],
       [gate |-> "lint", enabled |-> TRUE],
       [gate |-> "typecheck", enabled |-> TRUE] >>

\* a plan that ignores the test_in_canary flag
GatePlan_FlagIgnored(mode, test_in_canary) ==
    << [gate |-> "lint", enabled |-> TRUE],
       [gate |-> "typecheck", enabled |-> TRUE],
       [gate |-> "test", enabled |-> (mode = "full")] >>

GatePlan(mode, test_in_canary) ==
    << [gate |-> "lint", enabled |-> TRUE],
       [gate |-> "typecheck", enabled |-> TRUE],
       [gate |-> "test", enabled |-> (mode = "full" \/ test_in_canary)] >>

FindingForExitCode(gate, exit_code) ==
    [id |-> <<gate, "exit", exit_code>>, gate |-> gate, severity |-> "high",
     files |-> <<>>, rule |-> <<>>, line |-> 0]

\* trace.output: stdout of ruff and pyright, .pygate/pytest-report.json (a
\* missing report reads as NotJson) for pytest
ParseGateOutput(gate, trace) ==
    CASE gate = "lint" -> ParseRuffOutput(trace.output)
      [] gate = "typecheck" -> ParsePyrightOutput(trace.output)
      [] gate = "test" -> ParsePytestOutput(trace.output)
      [] OTHER -> <<>>

\* a gate is failed only when the adapter found something
GateFailed_WhenParsed(gate, trace) ==
    trace.exit_code # 0 /\ ParseGateOutput(gate, trace) # <<>>

GateFailed(gate, trace) == trace.exit_code # 0

\* a failed gate with nothing parsed contributes nothing
GateFindings_NoFallback(gate, trace) == ParseGateOutput(gate, trace)

GateFindings(gate, trace) ==
    LET findings == ParseGateOutput(gate, trace)
    IN IF findings = <<>> THEN <<FindingForExitCode(gate, trace.exit_code)>>
       ELSE findings

\* out[gate] = [exit_code, output, duration_ms]: the trace of the gate command
RECURSIVE RunGates(_, _, _)
RunGates(plan, out, acc) ==
    IF plan = <<>> THEN acc
    ELSE LET g == Head(plan).gate
             next ==
                IF ~Head(plan).enabled
                THEN [acc EXCEPT !.gate_results =
                                    Append(@, [name |-> g, status |-> "skipped",
                                               duration_ms |-> 0])]
                ELSE IF GateFailed(g, out[g])
                THEN [gate_results |-> Append(acc.gate_results,
                                              [name |-> g, status |-> "fail",
                                               duration_ms |-> out[g].duration_ms]),
                      findings |-> acc.findings \o GateFindings(g, out[g]),
                      traces |-> Append(acc.traces,
                                        [gate |-> g, exit_code |-> out[g].exit_code,
                                         output |-> out[g].output,
                                         duration_ms |-> out[g].duration_ms])]
                ELSE [acc EXCEPT !.gate_results =
                                    Append(@, [name |-> g, status |-> "pass",
                                               duration_ms |-> out[g].duration_ms]),
                                 !.traces =
                                    Append(@, [gate |-> g,
                                               exit_code |-> out[g].exit_code,
                                               output |-> out[g].output,
                                               duration_ms |-> out[g].duration_ms])]
         IN RunGates(Tail(plan), out, next)

RunDeterministicGates(mode, test_in_canary, out) ==
    RunGates(GatePlan(mode, test_in_canary), out,
             [gate_results |-> <<>>, findings |-> <<>>, traces |-> <<>>])

\* a run that never fails
RunStatus_Never(findings) == "pass"

RunStatus(findings) == IF findings # <<>> THEN "fail" ELSE "pass"

ExecuteRun(mode, changed_files, cfg, out, run_id) ==
    LET r == RunDeterministicGates(mode, cfg.gates.test_in_canary, out)
    IN [run_id |-> run_id,
        mode |-> mode,
        status |-> RunStatus(r.findings),
        changed_files |-> changed_files,
        gates |-> r.gate_results,
        findings |-> r.findings]

----------------------------------------------------------------------------
(* summarize_command.py *)

\* a classification that takes a finding without files for a single-file one
ScopeForFinding_AtMostOne(finding_files) ==
    IF Len(finding_files) <= 1 THEN "single_file"
    ELSE IF Len(finding_files) <= 3 THEN "multi_file"
    ELSE "cross_module"

ScopeForFinding(finding_files) ==
    IF Len(finding_files) = 1 THEN "single_file"
    ELSE IF Len(finding_files) <= 3 THEN "multi_file"
    ELSE "cross_module"

ExecuteSummarize(fl) ==
    [run_id |-> fl.run_id,
     status |-> fl.status,
     priority_actions |->
        [i \in 1..Len(fl.findings) |->
            [finding_id |-> fl.findings[i].id,
             scope |-> ScopeForFinding(fl.findings[i].files),
             target_files |-> fl.findings[i].files]],
     escalation |->
        IF fl.status = "pass" THEN [required |-> FALSE, reason_code |-> "none"]
        ELSE [required |-> TRUE, reason_code |-> UNRESOLVED_DETERMINISTIC_FAILURES]]

----------------------------------------------------------------------------
(* cli.py *)

\* the process has not called sys.exit yet
NotExited == -1

\* repair exits with the code of a failed run
MainExitCode_RepairAsRun(command, outcome) ==
    CASE command = "summarize" -> 0
      [] OTHER -> IF outcome.status = "pass" THEN 0 ELSE 1

\* main: sys.exit of the three commands
MainExitCode(command, outcome) ==
    CASE command = "run" -> IF outcome.status = "pass" THEN 0 ELSE 1
      [] command = "summarize" -> 0
      [] command = "repair" -> IF outcome.status = "pass" THEN 0 ELSE 2

----------------------------------------------------------------------------
(* repair_command.py: the decisions of execute_repair *)

\* an off-by-one loop bound: range(1, max_attempts + 2)
LoopContinues_OneMore(attempt, max_attempts) == attempt + 1 <= max_attempts + 1

\* for attempt_num in range(1, max_attempts + 1)
LoopContinues(attempt, max_attempts) == attempt + 1 <= max_attempts

\* the comparison made on whole seconds: int(elapsed) > time_cap_seconds
TimeCapExceeded_Truncated(ticks, time_cap_seconds) ==
    ticks \div TicksPerSecond > time_cap_seconds

\* if elapsed > time_cap_seconds
TimeCapExceeded(ticks, time_cap_seconds) == ticks > time_cap_seconds * TicksPerSecond

\* int(elapsed)
ElapsedSeconds(ticks) == ticks \div TicksPerSecond

\* the check without its first-attempt exemption: if not actions
NoFixStrategies_AnyAttempt(acts, attempt) == acts = <<>>

\* if not actions and attempt_num > 1
NoFixStrategies(acts, attempt) == acts = <<>> /\ attempt > 1

\* an off-by-one budget: if patch_lines > max_patch_lines + 1
PatchBudgetExceeded_OffByOne(lines, max_patch_lines) == lines > max_patch_lines + 1

\* if patch_lines > max_patch_lines
PatchBudgetExceeded(lines, max_patch_lines) == lines > max_patch_lines

\* any change of the count taken for an improvement
Improved_AnyChange(current_count, prev_count) == current_count # prev_count

\* a non-strict comparison: current_count <= previous_count
Improved_NonStrict(current_count, prev_count) == current_count <= prev_count

Improved(current_count, prev_count) == current_count < prev_count

\* a non-strict comparison: current_count >= previous_count
Worsened_NonStrict(current_count, prev_count) == current_count >= prev_count

Worsened(current_count, prev_count) == current_count > prev_count

\* the pass check left out
RerunPassed_Never(snapshot) == FALSE

\* if rerun["status"] == "pass"
RerunPassed(snapshot) == snapshot.status = "pass"

\* if improved: no_improvement = 0 else: no_improvement += 1
TrackImprovement(counter, improved) == IF improved THEN 0 ELSE counter + 1

\* if no_improvement >= abort_threshold
AbortOnNoImprovement(counter, abort_threshold) == counter >= abort_threshold

\* a record whose before_findings is taken from the re-run, not from the baseline
RepairAttempt_BaselineFromRerun(attempt, lines, before, after, status, acts) ==
    [attempt |-> attempt,
     patch_lines |-> lines,
     before_findings |-> after,
     after_findings |-> after,
     improved |-> Improved(after, before),
     worsened |-> Worsened(after, before),
     status |-> status,
     actions |-> acts]

\* a record whose after_findings is the count carried over from before the attempt
RepairAttempt_CachedCount(attempt, lines, before, after, status, acts) ==
    [attempt |-> attempt,
     patch_lines |-> lines,
     before_findings |-> before,
     after_findings |-> before,
     improved |-> Improved(after, before),
     worsened |-> Worsened(after, before),
     status |-> status,
     actions |-> acts]

RepairAttempt(attempt, lines, before, after, status, acts) ==
    [attempt |-> attempt,
     patch_lines |-> lines,
     before_findings |-> before,
     after_findings |-> after,
     improved |-> Improved(after, before),
     worsened |-> Worsened(after, before),
     status |-> status,
     actions |-> acts]

Escalation(reason_code, message, evidence) ==
    [status |-> "escalated", reason_code |-> reason_code, message |-> message,
     evidence |-> evidence]

RepairReport(status, atts) == [status |-> status, attempts |-> atts]

TimeCapEscalation(ticks, time_cap_seconds) ==
    Escalation(UNKNOWN_BLOCKER, <<"Time cap reached", time_cap_seconds>>,
               [elapsed_seconds |-> ElapsedSeconds(ticks)])

\* the zero-action abort raised with the reason code of the other aborts
NoStrategyEscalation_WrongCode(atts, fl, prev_count) ==
    [status |-> "escalated", reason_code |-> UNKNOWN_BLOCKER,
     message |-> <<"No applicable fix strategies", prev_count>>,
     evidence |-> [attempts |-> atts,
                   latest_failures_path |-> FAILURES_FILE,
                   remaining_gates |-> {fl.findings[i].gate : i \in 1..Len(fl.findings)}]]

NoStrategyEscalation(atts, fl, prev_count) ==
    Escalation(NO_IMPROVEMENT, <<"No applicable fix strategies", prev_count>>,
               [attempts |-> atts,
                latest_failures_path |-> FAILURES_FILE,
                remaining_gates |-> {fl.findings[i].gate : i \in 1..Len(fl.findings)}])

PatchBudgetEscalation(attempt, lines, max_patch_lines) ==
    Escalation(PATCH_BUDGET_EXCEEDED, <<"Patch exceeded budget", lines, max_patch_lines>>,
               [attempt |-> attempt, patch_lines |-> lines,
                max_patch_lines |-> max_patch_lines])

\* the stagnation abort raised with the wrong reason code
StagnationEscalation_WrongCode(atts, counter) ==
    [status |-> "escalated", reason_code |-> UNKNOWN_BLOCKER,
     message |-> <<"No measurable improvement", counter>>,
     evidence |-> [attempts |-> atts, latest_failures_path |-> FAILURES_FILE]]

StagnationEscalation(atts, counter) ==
    Escalation(NO_IMPROVEMENT, <<"No measurable improvement", counter>>,
               [attempts |-> atts, latest_failures_path |-> FAILURES_FILE])

\* the exhausted-attempts abort raised with the reason code of the agent brief
ExhaustedEscalation_BriefCode(max_attempts) ==
    [status |-> "escalated", reason_code |-> UNRESOLVED_DETERMINISTIC_FAILURES,
     message |-> <<"Attempts exhausted", max_attempts>>,
     evidence |-> [latest_failures_path |-> FAILURES_FILE]]

ExhaustedEscalation(max_attempts) ==
    Escalation(UNKNOWN_BLOCKER, <<"Attempts exhausted", max_attempts>>,
               [latest_failures_path |-> FAILURES_FILE])

----------------------------------------------------------------------------
(* The environment the session runs in: what the external commands may do *)

Exit0 == [exit_code |-> 0, output |-> JsonList(<<>>), duration_ms |-> 1]
NotRun == [exit_code |-> 0, output |-> NotJson, duration_ms |-> 0, not_run |-> TRUE]

\* ruff reports k violations in a.py, pyright one error in pkg/b.py
LintOutput(k) ==
    JsonList([i \in 1..k |-> [code |-> <<"E", 501>>, filename |-> Cwd \o WsA, row |-> i]])

TypecheckOutput ==
    JsonDict("generalDiagnostics",
             << [severity |-> "error", file |-> Cwd \o WsB, rule |-> <<"reportGeneralTypeIssues">>,
                 line |-> 0] >>)

Unparseable(code) == [exit_code |-> code, output |-> NotJson, duration_ms |-> 1]

\* the exit code and adapter output of every gate command of one gate run;
\* an empty parsed list with a non-zero exit code is unparseable output
GateOutcomes(mode, cfg) ==
    LET lint_fails == [exit_code |-> 1, output |-> LintOutput(MaxLint), duration_ms |-> 1]
        typecheck_fails == [exit_code |-> 1, output |-> TypecheckOutput, duration_ms |-> 1]
        test_on == mode = "full" \/ cfg.gates.test_in_canary
        test_ok == IF test_on THEN Exit0 ELSE NotRun
    IN {[lint |-> Exit0, typecheck |-> Exit0, test |-> test_ok],
        [lint |-> Unparseable(2), typecheck |-> Exit0, test |-> test_ok],
        [lint |-> lint_fails, typecheck |-> Exit0, test |-> test_ok],
        [lint |-> Exit0, typecheck |-> typecheck_fails, test |-> test_ok],
        [lint |-> lint_fails, typecheck |-> typecheck_fails, test |-> test_ok]}
         \cup (IF test_on
               THEN {[lint |-> Exit0, typecheck |-> Exit0, test |-> Unparseable(1)]}
               ELSE {})

\* what `ruff check --fix` and `ruff format` do to the files they are given:
\* their exit codes, the files they rewrite, and the diff size git reports
\* for a rewritten file afterwards
FixEffects(scoped, tree) ==
    LET present == Range(scoped) \cap DOMAIN tree
    IN {[codes |-> <<0, 0>>, touched |-> {}, d |-> 0]}
         \cup (IF present = {} THEN {}
               ELSE {[codes |-> <<1, 0>>, touched |-> {Head(scoped)} \cap present, d |-> 1],
                     [codes |-> <<0, 2>>, touched |-> present, d |-> 2]})

\* time.monotonic() - started: no measurable time has passed since the last
\* reading, or the clock has reached the horizon
ClockReadings(last) == {last, MaxClock}

ApplyFix(tree, effect, attempt) ==
    [p \in DOMAIN tree |->
        IF p \in effect.touched THEN [by |-> attempt, d |-> effect.d] ELSE tree[p]]

Policies ==
    [max_attempts : 0..MaxAttempts,
     max_patch_lines : {0, 1},
     abort_on_no_improvement : {0, 1, 2},
     time_cap_seconds : {0, 1}]

ChangedFileLists == {<<>>, <<WsA, WsB>>}

\* an external effect, tagged with the attempt that causes it
Event(op) == [op |-> op, attempt |-> attempt_num']

----------------------------------------------------------------------------
(* execute_repair *)

Init ==
    /\ config \in [policy : Policies, gates : [test_in_canary : {FALSE}]]
    /\ git_ok \in BOOLEAN
    /\ ws = InitialWorkspace
    /\ backups = <<>>
    /\ \E mode \in {"canary", "full"}, changed \in ChangedFileLists :
         \E out \in GateOutcomes(mode, config) :
            failures = ExecuteRun(mode, changed, config, out, 0)
    /\ pygate_files = [failures |-> failures, run_metadata |-> NoFile,
                       agent_brief |-> NoFile, repair_report |-> NoFile,
                       escalation |-> NoFile]
    /\ pc = "loop"
    /\ attempt_num = 0
    /\ previous_count = Len(failures.findings)
    /\ no_improvement = 0
    /\ attempts = <<>>
    /\ elapsed = 0
    /\ before_snap = EmptyTree
    /\ actions = <<>>
    /\ patch_lines = 0
    /\ rerun = NoValue
    /\ result = NoValue
    /\ n_runs = 0
    /\ log = <<>>
    /\ exit_status = NotExited

\* an _escalate that returns the record without writing escalation.json
Escalate_NotWritten(esc, events) ==
    /\ pygate_files' = pygate_files
    /\ result' = esc
    /\ exit_status' = MainExitCode("repair", esc)
    /\ log' = log \o events
    /\ pc' = "done"

\* _escalate: write escalation.json and return the record
Escalate(esc, events) ==
    /\ pygate_files' = [pygate_files EXCEPT !.escalation = esc]
    /\ result' = esc
    /\ exit_status' = MainExitCode("repair", esc)
    /\ log' = log \o events \o <<Event("write_escalation")>>
    /\ pc' = "done"

\* lines 118-127: the next iteration starts with the time cap check
TimeCapCheck ==
    /\ pc = "loop"
    /\ LoopContinues(attempt_num, config.policy.max_attempts)
    /\ attempt_num' = attempt_num + 1
    /\ \E now \in ClockReadings(elapsed) :
         /\ elapsed' = now
         /\ IF TimeCapExceeded(now, config.policy.time_cap_seconds)
            THEN Escalate(TimeCapEscalation(now, config.policy.time_cap_seconds), <<>>)
            ELSE /\ pc' = "backup"
                 /\ UNCHANGED <<pygate_files, result, exit_status, log>>
    /\ UNCHANGED <<config, git_ok, ws, backups, previous_count, no_improvement,
                   attempts, failures, before_snap, actions, patch_lines, rerun,
                   n_runs>>

\* lines 129-134: checkpoint the workspace, take the diff snapshot
Checkpoint ==
    /\ pc = "backup"
    /\ attempt_num' = attempt_num
    /\ backups' = [n \in (DOMAIN backups) \cup {attempt_num} |->
                      IF n = attempt_num THEN BackupWorkspace(ws) ELSE backups[n]]
    /\ before_snap' = DiffSnapshot(ws, git_ok)
    /\ log' = Append(log, Event("backup"))
    /\ pc' = "fix"
    /\ UNCHANGED <<config, git_ok, ws, pygate_files, previous_count,
                   no_improvement, attempts, failures, elapsed, actions,
                   patch_lines, rerun, result, exit_status, n_runs>>

\* lines 136-150: run the fix engine; nothing to try after the first attempt
FixStep ==
    /\ pc = "fix"
    /\ attempt_num' = attempt_num
    /\ \E scoped \in {CollectScopedFiles(failures)} :
       \E effect \in FixEffects(scoped, ws) :
       \E acts \in {RunDeterministicPrefix(failures, effect.codes[1], effect.codes[2])} :
       \E ran \in {IF acts = <<>> THEN <<>>
                   ELSE <<Event("ruff_fix"), Event("ruff_format")>>} :
         /\ acts = <<>> => effect.touched = {}
         /\ actions' = acts
         /\ ws' = ApplyFix(ws, effect, attempt_num)
         /\ IF NoFixStrategies(acts, attempt_num)
            THEN Escalate(NoStrategyEscalation(attempts, failures, previous_count), ran)
            ELSE /\ pc' = "patch"
                 /\ log' = log \o ran
                 /\ UNCHANGED <<pygate_files, result, exit_status>>
    /\ UNCHANGED <<config, git_ok, backups, previous_count,
                   no_improvement, attempts, failures, elapsed, before_snap,
                   patch_lines, rerun, n_runs>>

\* lines 152-168: compute the patch size, enforce the patch budget
PatchBudgetCheck ==
    /\ pc = "patch"
    /\ attempt_num' = attempt_num
    /\ LET lines == ComputePatchLines(before_snap, DiffSnapshot(ws, git_ok))
       IN /\ patch_lines' = lines
          /\ IF PatchBudgetExceeded(lines, config.policy.max_patch_lines)
             THEN /\ ws' = RestoreWorkspace(ws, backups[attempt_num])
                  /\ Escalate(PatchBudgetEscalation(attempt_num, lines,
                                                    config.policy.max_patch_lines),
                              <<Event("restore")>>)
             ELSE /\ pc' = "rerun"
                  /\ UNCHANGED <<ws, pygate_files, result, exit_status, log>>
    /\ UNCHANGED <<config, git_ok, backups, previous_count,
                   no_improvement, attempts, failures, elapsed, before_snap,
                   actions, rerun, n_runs>>

\* lines 170-191: re-run the gates, regenerate the brief, record the attempt
Remeasure ==
    /\ pc = "rerun"
    /\ attempt_num' = attempt_num
    /\ \E out \in GateOutcomes(failures.mode, config) :
         LET fresh == ExecuteRun(failures.mode, failures.changed_files, config, out,
                                 n_runs + 1)
         IN /\ rerun' = fresh
            /\ pygate_files' = [pygate_files EXCEPT
                                  !.failures = fresh,
                                  !.run_metadata = [run_id |-> fresh.run_id],
                                  !.agent_brief = ExecuteSummarize(fresh)]
            /\ attempts' = Append(attempts,
                              RepairAttempt(attempt_num, patch_lines, previous_count,
                                            Len(fresh.findings), fresh.status, actions))
    /\ n_runs' = n_runs + 1
    /\ log' = log \o <<Event("gate_run"), Event("summarize")>>
    /\ pc' = "pass_check"
    /\ UNCHANGED <<config, git_ok, ws, backups, previous_count,
                   no_improvement, failures, elapsed, before_snap, actions,
                   patch_lines, result, exit_status>>

\* lines 193-197: converge
PassCheck ==
    /\ pc = "pass_check"
    /\ attempt_num' = attempt_num
    /\ IF RerunPassed(rerun)
       THEN /\ pygate_files' = [pygate_files EXCEPT
                                   !.repair_report = RepairReport("pass", attempts)]
            /\ result' = RepairReport("pass", attempts)
            /\ exit_status' = MainExitCode("repair", RepairReport("pass", attempts))
            /\ log' = Append(log, Event("write_report"))
            /\ pc' = "done"
       ELSE /\ pc' = "rollback"
            /\ UNCHANGED <<pygate_files, result, exit_status, log>>
    /\ UNCHANGED <<config, git_ok, ws, backups, previous_count,
                   no_improvement, attempts, failures, elapsed, before_snap,
                   actions, patch_lines, rerun, n_runs>>

\* lines 199-205: roll back a worsened attempt, adopt any other
RegressionCheck ==
    /\ pc = "rollback"
    /\ attempt_num' = attempt_num
    /\ IF attempts[Len(attempts)].worsened
       THEN /\ ws' = RestoreWorkspace(ws, backups[attempt_num])
            /\ log' = Append(log, Event("restore"))
            /\ UNCHANGED <<previous_count, failures>>
       ELSE /\ previous_count' = Len(rerun.findings)
            /\ failures' = rerun
            /\ UNCHANGED <<ws, log>>
    /\ pc' = "stagnation"
    /\ UNCHANGED <<config, git_ok, backups, pygate_files, no_improvement,
                   attempts, elapsed, before_snap, actions, patch_lines, rerun,
                   result, exit_status, n_runs>>

\* lines 207-223: stagnation tracking and abort
StagnationCheck ==
    /\ pc = "stagnation"
    /\ attempt_num' = attempt_num
    /\ LET counter == TrackImprovement(no_improvement, attempts[Len(attempts)].improved)
       IN /\ no_improvement' = counter
          /\ IF AbortOnNoImprovement(counter, config.policy.abort_on_no_improvement)
             THEN Escalate(StagnationEscalation(attempts, counter), <<>>)
             ELSE /\ pc' = "loop"
                  /\ UNCHANGED <<pygate_files, result, exit_status, log>>
    /\ UNCHANGED <<config, git_ok, ws, backups, previous_count,
                   attempts, failures, elapsed, before_snap, actions, patch_lines,
                   rerun, n_runs>>

\* lines 225-231: the loop ran out of attempts
AttemptsExhausted ==
    /\ pc = "loop"
    /\ attempt_num' = attempt_num
    /\ ~LoopContinues(attempt_num, config.policy.max_attempts)
    /\ Escalate(ExhaustedEscalation(config.policy.max_attempts), <<>>)
    /\ UNCHANGED <<config, git_ok, ws, backups, previous_count,
                   no_improvement, attempts, failures, elapsed, before_snap,
                   actions, patch_lines, rerun, n_runs>>

Next ==
    \/ TimeCapCheck
    \/ Checkpoint
    \/ FixStep
    \/ PatchBudgetCheck
    \/ Remeasure
    \/ PassCheck
    \/ RegressionCheck
    \/ StagnationCheck
    \/ AttemptsExhausted

Spec == Init /\ [][Next]_vars

\* every external command returns, so the session always takes its next step
FairSpec == Spec /\ WF_vars(Next)

----------------------------------------------------------------------------
(* `pygate run`, twice in the same project, then `pygate summarize`: the
   gate runner and the adapters over every combination of exit codes and
   checker outputs *)

RECURSIVE PickFrom(_, _, _)
PickFrom(base, keep, i) ==
    IF i > Len(base) THEN <<>>
    ELSE (IF i \in keep THEN <<base[i]>> ELSE <<>>) \o PickFrom(base, keep, i + 1)

\* the defects ruff can report, in the order ruff reports them
RuffViolations ==
    << [code |-> <<"E", 501>>, filename |-> Cwd \o WsA, row |-> 1],
       [code |-> <<"F", 401>>, filename |-> Cwd \o WsA, row |-> 5],
       [code |-> <<"w", 291>>, filename |-> WsB, row |-> 2] >>

LintTraces ==
    [exit_code : {0, 1},
     output : {NotJson, JsonDict("error", <<>>)}
                 \cup {JsonList(PickFrom(RuffViolations, keep, 1)) :
                          keep \in SUBSET (1..Len(RuffViolations))},
     duration_ms : {1}]

\* range.start of a diagnostic is its line and character
PyrightDiagnostics ==
    << [severity |-> "error", file |-> Cwd \o WsB,
        rule |-> <<"reportGeneralTypeIssues">>, line |-> 0, character |-> 0],
       [severity |-> "information", file |-> Cwd \o WsA, rule |-> <<>>, line |-> 3,
        character |-> 0],
       [severity |-> "warning", file |-> Cwd \o WsA, rule |-> <<>>, line |-> 3,
        character |-> 0],
       [severity |-> "error", file |-> Cwd \o WsB,
        rule |-> <<"reportGeneralTypeIssues">>, line |-> 0, character |-> 8] >>

TypecheckTraces ==
    [exit_code : {0, 2},
     output : {NotJson, JsonList(<<>>)}
                 \cup {JsonDict("generalDiagnostics", PickFrom(PyrightDiagnostics, keep, 1)) :
                          keep \in {{}, {1}, {2}, {2, 3}, {1, 4}}},
     duration_ms : {1}]

PytestTests ==
    << [outcome |-> "passed", nodeid |-> <<<<"tests", "test_a.py">>, "test_ok">>],
       [outcome |-> "failed", nodeid |-> <<<<"tests", "test_a.py">>, "test_bad">>],
       [outcome |-> "error", nodeid |-> <<<<"tests", "test_b.py">>>>] >>

TestTraces ==
    [exit_code : {0, 1},
     output : {NotJson}
                 \cup {JsonDict("tests", PickFrom(PytestTests, keep, 1)) :
                          keep \in {{1}, {1, 2}, {2, 3}}},
     duration_ms : {1}]

\* the first run meets every combination of gate traces; by the second run
\* the lint defects may have changed in any way
GateTraces(run) ==
    IF run = 1
    THEN [lint : LintTraces, typecheck : TypecheckTraces, test : TestTraces]
    ELSE [lint : LintTraces,
          typecheck : {Exit0},
          test : {Exit0}]

RunInit ==
    /\ config \in [policy : {[max_attempts |-> 0, max_patch_lines |-> 0,
                              abort_on_no_improvement |-> 0, time_cap_seconds |-> 0]},
                   gates : [test_in_canary : BOOLEAN]]
    /\ git_ok = TRUE
    /\ ws = InitialWorkspace
    /\ backups = <<>>
    /\ pygate_files = [failures |-> NoFile, run_metadata |-> NoFile,
                       agent_brief |-> NoFile, repair_report |-> NoFile,
                       escalation |-> NoFile]
    /\ pc = "run_1"
    /\ attempt_num = 0
    /\ previous_count = 0
    /\ no_improvement = 0
    /\ attempts = <<>>
    /\ failures = NoValue
    /\ elapsed = 0
    /\ before_snap = EmptyTree
    /\ actions = <<>>
    /\ patch_lines = 0
    /\ rerun = NoValue
    /\ result = NoValue
    /\ n_runs = 0
    /\ log = <<>>
    /\ exit_status = NotExited

\* cli.main, command run: execute_run, print, sys.exit; `failures` keeps the
\* payload of the run before this one
CliRun ==
    /\ pc \in {"run_1", "run_2"}
    /\ \E mode \in {"canary", "full"}, out \in GateTraces(n_runs + 1) :
         \E fresh \in {ExecuteRun(mode, <<WsA>>, config, out, n_runs + 1)} :
         \E traces \in {RunDeterministicGates(mode, config.gates.test_in_canary,
                                               out).traces} :
            /\ rerun' = fresh
            /\ pygate_files' = [pygate_files EXCEPT
                                  !.failures = fresh,
                                  !.run_metadata = [run_id |-> fresh.run_id,
                                                    command_traces |-> traces]]
            /\ result' = [status |-> fresh.status, run_id |-> fresh.run_id,
                          failures_path |-> FAILURES_FILE]
            /\ exit_status' = MainExitCode("run", [status |-> fresh.status])
            /\ log' = log \o [i \in 1..Len(traces) |->
                                [op |-> traces[i].gate, attempt |-> n_runs + 1]]
    /\ failures' = rerun
    /\ n_runs' = n_runs + 1
    /\ pc' = IF pc = "run_1" THEN "run_2" ELSE "summarize"
    /\ UNCHANGED <<config, git_ok, ws, backups, attempt_num, previous_count,
                   no_improvement, attempts, elapsed, before_snap, actions,
                   patch_lines>>

\* a summarize that rewrites the files its findings name, as a formatter would
CliSummarize_RewritesFiles ==
    /\ pc = "summarize"
    /\ pygate_files' = [pygate_files EXCEPT
                          !.agent_brief = ExecuteSummarize(pygate_files.failures)]
    /\ ws' = [p \in DOMAIN ws |-> IF p = WsA THEN [by |-> n_runs, d |-> 1] ELSE ws[p]]
    /\ result' = ExecuteSummarize(pygate_files.failures)
    /\ exit_status' = MainExitCode("summarize", result')
    /\ log' = Append(log, [op |-> "summarize", attempt |-> n_runs])
    /\ pc' = "exited"
    /\ UNCHANGED <<config, git_ok, backups, attempt_num, previous_count,
                   no_improvement, attempts, failures, elapsed, before_snap, actions,
                   patch_lines, rerun, n_runs>>

\* cli.main, command summarize: execute_summarize on failures.json, sys.exit(0)
CliSummarize ==
    /\ pc = "summarize"
    /\ pygate_files' = [pygate_files EXCEPT
                          !.agent_brief = ExecuteSummarize(pygate_files.failures)]
    /\ result' = ExecuteSummarize(pygate_files.failures)
    /\ exit_status' = MainExitCode("summarize", result')
    /\ log' = Append(log, [op |-> "summarize", attempt |-> n_runs])
    /\ pc' = "exited"
    /\ UNCHANGED <<config, git_ok, ws, backups, attempt_num, previous_count,
                   no_improvement, attempts, failures, elapsed, before_snap, actions,
                   patch_lines, rerun, n_runs>>

RunNext == CliRun \/ CliSummarize

RunSpec == RunInit /\ [][RunNext]_vars

----------------------------------------------------------------------------
(* The fix engine on its own: _collect_scoped_files and run_deterministic_prefix
   applied to a snapshot read from failures.json.  Here `result` holds the
   list returned by _collect_scoped_files and attempt_num counts the calls of
   run_deterministic_prefix. *)

SrcDirs == <<"pkg", "src", "lib", "app", "core", "util", "api", "cmd", "web",
             "db", "io", "ui">>
SrcNames == <<"a.py", "b.py", "x.py">>

\* the n-th of the eligible source files: pkg/a.py, pkg/b.py, pkg/x.py, src/a.py, ...
SrcFile(n) == <<SrcDirs[((n - 1) \div 3) + 1], SrcNames[((n - 1) % 3) + 1]>>
OfferedFiles(n) == [i \in 1..n |-> SrcFile(i)]

Readme == <<"README.md">>
GitFile == <<".git", "a.py">>
DistFile == <<"dist", "a.py">>
CachedFile == <<"pkg", "__pycache__", "x.py">>
AbsoluteFile == <<"/", "etc", "a.py">>
ParentFile == <<"..", "a.py">>
TestFile == <<"tests", "test_a.py">>

\* a finding of a gate on the given files
FindingOn(gate, files) ==
    [id |-> <<gate, "on", files>>, gate |-> gate, severity |-> "high",
     files |-> files, rule |-> <<>>, line |-> 0]

OfferedChanged ==
    { <<>>,
      <<WsA, WsB>>,
      <<Readme, GitFile, AbsoluteFile, ParentFile, CachedFile, DistFile>>,
      <<WsA, Readme, WsA, WsB, DistFile, WsB>>,
      OfferedFiles(MAX_FILES - 1),
      OfferedFiles(MAX_FILES),
      <<Readme>> \o OfferedFiles(MAX_FILES + 1) \o <<WsA>>,
      OfferedFiles(MaxOffered) }

OfferedFindings ==
    { <<>>,
      <<FindingForExitCode("lint", 1)>>,
      ParseRuffOutput(LintOutput(1)),
      <<FindingOn("lint", <<GitFile, AbsoluteFile>>)>>,
      <<FindingOn("typecheck", <<SrcFile(MAX_FILES + 5)>>)>>,
      <<FindingOn("typecheck", <<SrcFile(MAX_FILES + 5)>>),
        FindingOn("lint", <<WsA>>),
        FindingOn("test", <<TestFile>>)>>,
      <<FindingOn("lint", <<SrcFile(MAX_FILES + 1), SrcFile(1), SrcFile(MAX_FILES + 2)>>),
        FindingOn("lint", <<SrcFile(MAX_FILES + 2), DistFile, SrcFile(MAX_FILES + 3)>>)>>,
      <<FindingOn("test", <<TestFile>>), FindingOn("typecheck", <<CachedFile>>)>> }

\* the snapshot as it is read from failures.json
Snapshots ==
    {[changed_files |-> changed, findings |-> found, mode |-> "full",
      status |-> RunStatus(found), run_id |-> 0,
      gates |-> [i \in 1..3 |->
                   LET g == <<"lint", "typecheck", "test">>[i]
                   IN [name |-> g,
                       status |-> IF \E k \in 1..Len(found) : found[k].gate = g
                                  THEN "fail" ELSE "pass",
                       duration_ms |-> 1]]] :
       changed \in OfferedChanged, found \in OfferedFindings}

\* exit codes of `ruff check --fix` and `ruff format`, and the files rewritten
PrefixEffects(scoped, tree) ==
    LET present == Range(scoped) \cap DOMAIN tree
    IN {[codes |-> <<fix_exit, fmt_exit>>, touched |-> touched, d |-> 1] :
          fix_exit \in {0, 1, 2}, fmt_exit \in {0, 1, 2},
          touched \in {{}, present}}

FixInit ==
    /\ config \in [policy : {[max_attempts |-> 0, max_patch_lines |-> 0,
                              abort_on_no_improvement |-> 0, time_cap_seconds |-> 0]},
                   gates : [test_in_canary : {FALSE}]]
    /\ git_ok = TRUE
    /\ ws = InitialWorkspace
    /\ backups = <<>>
    /\ failures \in Snapshots
    /\ pygate_files = [failures |-> failures, run_metadata |-> NoFile,
                       agent_brief |-> NoFile, repair_report |-> NoFile,
                       escalation |-> NoFile]
    /\ pc = "collect"
    /\ attempt_num = 0
    /\ previous_count = 0
    /\ no_improvement = 0
    /\ attempts = <<>>
    /\ elapsed = 0
    /\ before_snap = EmptyTree
    /\ actions = <<>>
    /\ patch_lines = 0
    /\ rerun = NoValue
    /\ result = NoValue
    /\ n_runs = 0
    /\ log = <<>>
    /\ exit_status = NotExited

\* _collect_scoped_files(failures), called on its own
CollectScoped ==
    /\ pc = "collect"
    /\ result' = CollectScopedFiles(failures)
    /\ pc' = "prefix"
    /\ UNCHANGED <<config, git_ok, ws, backups, pygate_files, attempt_num,
                   previous_count, no_improvement, attempts, failures, elapsed,
                   before_snap, actions, patch_lines, rerun, n_runs, log,
                   exit_status>>

\* run_deterministic_prefix(cwd, failures), called twice in a row
FixEngine ==
    /\ pc \in {"prefix", "prefix_again"}
    /\ attempt_num' = attempt_num + 1
    /\ \E scoped \in {CollectScopedFiles(failures)} :
       \E effect \in PrefixEffects(scoped, ws) :
       \E acts \in {RunDeterministicPrefix(failures, effect.codes[1], effect.codes[2])} :
         /\ acts = <<>> => (effect.touched = {} /\ effect.codes = <<0, 0>>)
         /\ actions' = acts
         /\ ws' = ApplyFix(ws, effect, attempt_num')
         /\ log' = log \o (IF acts = <<>> THEN <<>>
                           ELSE <<Event("ruff_fix"), Event("ruff_format")>>)
    /\ pc' = IF pc = "prefix" THEN "prefix_again" ELSE "prefix_done"
    /\ UNCHANGED <<config, git_ok, backups, pygate_files, previous_count,
                   no_improvement, attempts, failures, elapsed, before_snap,
                   patch_lines, rerun, result, n_runs, exit_status>>

FixNext == CollectScoped \/ FixEngine

FixSpec == FixInit /\ [][FixNext]_vars

----------------------------------------------------------------------------
(* `pygate summarize` on a snapshot read from failures.json *)

\* a finding of the n-th kind: its gate, and n - 1 files
SummarizedFinding(n) ==
    FindingOn(<<"lint", "typecheck", "test">>[(n % 3) + 1], OfferedFiles(n - 1))

SummarizedFindings ==
    UNION {[1..len -> {SummarizedFinding(n) : n \in 1..(MaxFindingFiles + 1)}] :
             len \in 0..MaxSummarized}

SnapshotWith(found) ==
    [changed_files |-> <<WsA>>, findings |-> found, mode |-> "full",
     status |-> RunStatus(found), run_id |-> 1,
     gates |-> [i \in 1..3 |->
                  LET g == <<"lint", "typecheck", "test">>[i]
                  IN [name |-> g,
                      status |-> IF \E k \in 1..Len(found) : found[k].gate = g
                                 THEN "fail" ELSE "pass",
                      duration_ms |-> 1]]]

SumInit ==
    /\ config \in [policy : {[max_attempts |-> 0, max_patch_lines |-> 0,
                              abort_on_no_improvement |-> 0, time_cap_seconds |-> 0]},
                   gates : [test_in_canary : {FALSE}]]
    /\ git_ok = TRUE
    /\ ws = InitialWorkspace
    /\ backups = <<>>
    /\ \E found \in SummarizedFindings :
          pygate_files = [failures |-> SnapshotWith(found), run_metadata |-> NoFile,
                          agent_brief |-> NoFile, repair_report |-> NoFile,
                          escalation |-> NoFile]
    /\ pc = "summarize"
    /\ attempt_num = 0
    /\ previous_count = 0
    /\ no_improvement = 0
    /\ attempts = <<>>
    /\ failures = NoValue
    /\ elapsed = 0
    /\ before_snap = EmptyTree
    /\ actions = <<>>
    /\ patch_lines = 0
    /\ rerun = NoValue
    /\ result = NoValue
    /\ n_runs = 1
    /\ log = <<>>
    /\ exit_status = NotExited

SumNext == CliSummarize

SumSpec == SumInit /\ [][SumNext]_vars

----------------------------------------------------------------------------
(* load_config on a project directory with or without pygate.toml and
   pyproject.toml.  Here `ws` holds the TOML files with their parsed tables
   and `config` the dictionary load_config returns. *)

PolicyKeys == DOMAIN DEFAULT_POLICY

\* [policy] tables that set some of the keys, each to the given value
PolicyTables(value) ==
    {[k \in keys |-> value] : keys \in SUBSET PolicyKeys}

\* the tables of a configuration: nothing, a [gates] table, a [policy] table
ConfigTables(value) ==
    {EmptyTable, [gates |-> [test_in_canary |-> TRUE]]}
       \cup {[policy |-> p] : p \in PolicyTables(value)}
       \cup {[policy |-> [max_attempts |-> value], gates |-> [test_in_canary |-> TRUE]]}

\* the value the keys of pygate.toml are set to, and that of pyproject.toml
PygateTomlValue == 5
PyprojectValue == 7

PyprojectTables ==
    {EmptyTable, [tool |-> [ruff |-> [line_length |-> 80]]]}
       \cup {[tool |-> [pygate |-> t]] : t \in ConfigTables(PyprojectValue)}

ProjectFiles ==
    {[p \in {} |-> EmptyTable]}
       \cup {[p \in {PygateToml} |-> t] : t \in ConfigTables(PygateTomlValue)}
       \cup {[p \in {Pyproject} |-> t] : t \in PyprojectTables}
       \cup {[p \in {PygateToml, Pyproject} |->
                 IF p = PygateToml THEN t ELSE u] :
               t \in ConfigTables(PygateTomlValue), u \in PyprojectTables}

ConfInit ==
    /\ config = NoValue
    /\ git_ok = TRUE
    /\ ws \in ProjectFiles
    /\ backups = <<>>
    /\ pygate_files = [failures |-> NoFile, run_metadata |-> NoFile,
                       agent_brief |-> NoFile, repair_report |-> NoFile,
                       escalation |-> NoFile]
    /\ pc = "load"
    /\ attempt_num = 0
    /\ previous_count = 0
    /\ no_improvement = 0
    /\ attempts = <<>>
    /\ failures = NoValue
    /\ elapsed = 0
    /\ before_snap = EmptyTree
    /\ actions = <<>>
    /\ patch_lines = 0
    /\ rerun = NoValue
    /\ result = NoValue
    /\ n_runs = 0
    /\ log = <<>>
    /\ exit_status = NotExited

\* config = load_config(cwd)
LoadConfigStep ==
    /\ pc = "load"
    /\ config' = LoadConfig(ws)
    /\ pc' = "loaded"
    /\ UNCHANGED <<git_ok, ws, backups, pygate_files, attempt_num, previous_count,
                   no_improvement, attempts, failures, elapsed, before_snap,
                   actions, patch_lines, rerun, result, n_runs, log, exit_status>>

ConfNext == LoadConfigStep

ConfSpec == ConfInit /\ [][ConfNext]_vars

----------------------------------------------------------------------------
(* One adapter applied to the trace of one gate command.  Here the trace is
   the only entry of run_metadata.command_traces and `result` holds the
   findings the adapter returns. *)

RuleCodes ==
    {<<"E", 501>>, <<"F", 401>>, <<"W", 291>>, <<"I", 1>>, <<"e", 501>>,
     <<"f", 401>>, <<>>}

\* ruff output of one or two violations, any rule codes
RuffOutputs ==
    {JsonList([n \in 1..len |-> [code |-> codes[n], filename |-> Cwd \o WsA, row |-> n]]) :
        len \in 1..2, codes \in [1..2 -> RuleCodes]}

PyrightSeverities == {"error", "warning", "information", "hint"}

\* pyright output of up to three diagnostics, any severities
PyrightOutputs ==
    {JsonDict("generalDiagnostics",
              [n \in 1..len |-> [severity |-> sevs[n], file |-> Cwd \o WsB,
                                 rule |-> <<>>, line |-> n]]) :
        len \in 0..3, sevs \in [1..3 -> PyrightSeverities]}

AdapterTraces ==
    {[gate |-> "lint", exit_code |-> 1, output |-> o, duration_ms |-> 1] :
        o \in RuffOutputs}
       \cup {[gate |-> "typecheck", exit_code |-> 1, output |-> o, duration_ms |-> 1] :
                o \in PyrightOutputs}

AdapterInit ==
    /\ config \in [policy : {[max_attempts |-> 0, max_patch_lines |-> 0,
                              abort_on_no_improvement |-> 0, time_cap_seconds |-> 0]},
                   gates : [test_in_canary : {FALSE}]]
    /\ git_ok = TRUE
    /\ ws = InitialWorkspace
    /\ backups = <<>>
    /\ \E trace \in AdapterTraces :
          pygate_files = [failures |-> NoFile,
                          run_metadata |-> [run_id |-> 1, command_traces |-> <<trace>>],
                          agent_brief |-> NoFile, repair_report |-> NoFile,
                          escalation |-> NoFile]
    /\ pc = "parse"
    /\ attempt_num = 0
    /\ previous_count = 0
    /\ no_improvement = 0
    /\ attempts = <<>>
    /\ failures = NoValue
    /\ elapsed = 0
    /\ before_snap = EmptyTree
    /\ actions = <<>>
    /\ patch_lines = 0
    /\ rerun = NoValue
    /\ result = NoValue
    /\ n_runs = 1
    /\ log = <<>>
    /\ exit_status = NotExited

\* findings = _parse_gate_output(gate_name, trace, cwd)
ParseStep ==
    /\ pc = "parse"
    /\ \E trace \in {pygate_files.run_metadata.command_traces[1]} :
          result' = ParseGateOutput(trace.gate, trace)
    /\ pc' = "parsed"
    /\ UNCHANGED <<config, git_ok, ws, backups, pygate_files, attempt_num,
                   previous_count, no_improvement, attempts, failures, elapsed,
                   before_snap, actions, patch_lines, rerun, n_runs, log,
                   exit_status>>

AdapterNext == ParseStep

AdapterSpec == AdapterInit /\ [][AdapterNext]_vars

----------------------------------------------------------------------------
(* cli.main: one process runs one command, `repair` on one side, `run` and
   `summarize` on the other *)

CliInit == Init \/ RunInit

CliNext == Next \/ RunNext

CliSpec == CliInit /\ [][CliNext]_vars

----------------------------------------------------------------------------
(* Several `pygate repair` sessions, one after another in one workspace: the
   state directory, the backups and the workspace stay as the session before
   left them, and the next session reads failures.json as its input *)

MaxSessions == 2

SessionPolicies ==
    [max_attempts : {1, 2},
     max_patch_lines : {1},
     abort_on_no_improvement : {1},
     time_cap_seconds : {1}]

SessionInit ==
    /\ Init
    /\ config.policy \in SessionPolicies
    /\ git_ok

\* execute_repair lines 96-116, called again after the session before returned
NewSession ==
    /\ pc = "done"
    /\ CountOp(log, "repair") + 1 < MaxSessions
    /\ attempt_num' = 0
    /\ failures' = pygate_files.failures
    /\ previous_count' = Len(pygate_files.failures.findings)
    /\ no_improvement' = 0
    /\ attempts' = <<>>
    /\ elapsed' = 0
    /\ before_snap' = EmptyTree
    /\ actions' = <<>>
    /\ patch_lines' = 0
    /\ rerun' = NoValue
    /\ result' = NoValue
    /\ exit_status' = NotExited
    /\ log' = Append(log, Event("repair"))
    /\ pc' = "loop"
    /\ UNCHANGED <<config, git_ok, ws, backups, pygate_files, n_runs>>

SessionNext == Next \/ NewSession

SessionSpec == SessionInit /\ [][SessionNext]_vars

----------------------------------------------------------------------------
(* Vocabulary of the properties *)

Done == pc = "done"
Converged == Done /\ result.status = "pass"
Escalated == Done /\ result.status = "escalated"
LastAttempt == attempts[Len(attempts)]
Policy == config.policy

\* the escalation paths, told apart by reason code and evidence
TimeCapEscalated ==
    Escalated /\ result.reason_code = UNKNOWN_BLOCKER
              /\ "elapsed_seconds" \in DOMAIN result.evidence
ExhaustedEscalated ==
    Escalated /\ result.reason_code = UNKNOWN_BLOCKER
              /\ "elapsed_seconds" \notin DOMAIN result.evidence
NoStrategyEscalated ==
    Escalated /\ result.reason_code = NO_IMPROVEMENT
              /\ "remaining_gates" \in DOMAIN result.evidence
StagnationEscalated ==
    Escalated /\ result.reason_code = NO_IMPROVEMENT
              /\ "remaining_gates" \notin DOMAIN result.evidence
PatchBudgetEscalated ==
    Escalated /\ result.reason_code = PATCH_BUDGET_EXCEEDED

\* the files of a tree that a checkpoint holds
Checkpointed(tree) ==
    [p \in {q \in DOMAIN tree : \A i \in 1..Len(q) : q[i] \notin BACKUP_EXCLUDES}
        |-> tree[p]]

\* the workspace holds content written by the fix commands of attempt n
HoldsMutationsOf(n) == n >= 1 /\ \E p \in DOMAIN ws : ws[p].by = n

----------------------------------------------------------------------------
(* C1: every call of execute_repair terminates, in CONVERGED (status "pass")
   or ESCALATED (status "escalated"), after starting at most max_attempts
   attempts and running the gates at most max_attempts times; also for
   max_attempts = 0.  Termination: the session is never stuck before it
   returns, and every step lowers a measure that is bounded below. *)

PcRank ==
    [loop |-> 1, stagnation |-> 2, rollback |-> 3, pass_check |-> 4, rerun |-> 5,
     patch |-> 6, fix |-> 7, backup |-> 8, done |-> 0]

Measure ==
    IF Done THEN 0 ELSE 8 * (Policy.max_attempts - attempt_num) + PcRank[pc]

C1_Outcome ==
    /\ Done => (result.status \in {"pass", "escalated"})
    /\ ~Done => result = NoValue
    /\ attempt_num <= Policy.max_attempts
    /\ CountOp(log, "backup") <= attempt_num
    /\ CountOp(log, "gate_run") <= attempt_num
    /\ n_runs = CountOp(log, "gate_run")
    /\ Measure >= 0
    /\ ~Done => ENABLED Next

C1_Terminates == [] C1_Outcome /\ [][Measure' < Measure]_vars

\* the session converges in its last allowed attempt, having used every gate run
C1_Witness ==
    /\ Converged
    /\ Policy.max_attempts >= 2
    /\ attempt_num = Policy.max_attempts
    /\ n_runs = Policy.max_attempts

----------------------------------------------------------------------------
(* C2: one session writes exactly one terminal artifact: repair-report.json
   if and only if it converges, escalation.json if and only if it escalates,
   and escalation.json exactly once. *)

C2_OneTerminalArtifact ==
    /\ ~Done => /\ CountOp(log, "write_report") = 0
                /\ CountOp(log, "write_escalation") = 0
                /\ pygate_files.repair_report = NoFile
                /\ pygate_files.escalation = NoFile
    /\ Converged => /\ CountOp(log, "write_report") = 1
                    /\ CountOp(log, "write_escalation") = 0
                    /\ pygate_files.repair_report = result
                    /\ pygate_files.escalation = NoFile
    /\ Escalated => /\ CountOp(log, "write_escalation") = 1
                    /\ CountOp(log, "write_report") = 0
                    /\ pygate_files.escalation = result
                    /\ pygate_files.repair_report = NoFile
    /\ Done => (Converged \/ Escalated)

\* a session that escalates after it recorded attempts
C2_Witness == Escalated /\ Len(attempts) >= 2

----------------------------------------------------------------------------
(* C3: as soon as a re-measured snapshot has status pass the session ends
   CONVERGED in that same attempt, with no rollback, no stagnation check and
   no further attempt; the persisted report has status "pass" and holds every
   attempt of the session in order, the last with after_findings 0 and status
   "pass", every earlier one with status "fail"; it holds exactly one attempt
   when the first re-measure passes. *)

C3_ReportOnPass ==
    /\ (rerun # NoValue /\ rerun.status = "pass") => (pc = "pass_check" \/ Converged)
    /\ Converged =>
         LET report == pygate_files.repair_report
             n == Len(report.attempts)
         IN /\ report.status = "pass"
            /\ n = attempt_num
            /\ n >= 1
            /\ \A i \in 1..n : report.attempts[i].attempt = i
            /\ report.attempts[n].after_findings = 0
            /\ report.attempts[n].status = "pass"
            /\ \A i \in 1..(n - 1) : report.attempts[i].status = "fail"
            /\ rerun.status = "pass"
            /\ log[Len(log)] = [op |-> "write_report", attempt |-> n]
            /\ log[Len(log) - 1] = [op |-> "summarize", attempt |-> n]

C3_PassStep ==
    (pc = "pass_check" /\ rerun.status = "pass")
        => /\ pc' = "done"
           /\ result'.status = "pass"
           /\ result'.attempts = attempts
           /\ UNCHANGED <<ws, attempt_num, no_improvement, previous_count, failures,
                          attempts, n_runs>>

C3_ConvergesOnPass == [] C3_ReportOnPass /\ [][C3_PassStep]_vars

\* a session that converges in its third attempt
C3_Witness == Converged /\ Len(attempts) = 3

----------------------------------------------------------------------------
(* C4: after a re-measure that does not pass, a fresh finding count strictly
   above the pre-attempt count rolls the workspace back to the checkpoint of
   this attempt and leaves the current failures snapshot and the baseline
   count as they were; any other fresh count (less or equal) makes the fresh
   snapshot and its count the current ones, and nothing is rolled back. *)

C4_AfterFailedRemeasure ==
    /\ pc = "rollback" => /\ rerun.status = "fail"
                          /\ pygate_files.failures = rerun
                          /\ LastAttempt.attempt = attempt_num
                          /\ LastAttempt.after_findings = Len(rerun.findings)
                          /\ LastAttempt.before_findings = previous_count
    /\ pc = "fix" => backups[attempt_num] = Checkpointed(ws)

C4_RegressionStep ==
    /\ (pc = "pass_check" /\ rerun.status # "pass")
          => /\ pc' = "rollback"
             /\ UNCHANGED <<ws, failures, previous_count, log>>
    /\ pc = "rollback"
          => IF Len(rerun.findings) > previous_count
             THEN /\ Checkpointed(ws') = backups[attempt_num]
                  /\ log' = Append(log, [op |-> "restore", attempt |-> attempt_num])
                  /\ UNCHANGED <<failures, previous_count>>
             ELSE /\ failures' = rerun
                  /\ previous_count' = Len(rerun.findings)
                  /\ UNCHANGED <<ws, log>>

C4_RollbackOrAdopt == [] C4_AfterFailedRemeasure /\ [][C4_RegressionStep]_vars

\* a worsened attempt whose fix changed files has just been rolled back
C4_Witness ==
    /\ pc = "stagnation"
    /\ LastAttempt.worsened
    /\ patch_lines > 0
    /\ failures.run_id # rerun.run_id
    /\ Checkpointed(ws) = backups[attempt_num]

----------------------------------------------------------------------------
(* C5: a patch size strictly above max_patch_lines makes the loop roll the
   workspace back to the checkpoint of the attempt and then escalate with
   PATCH_BUDGET_EXCEEDED and evidence {attempt, patch_lines, max_patch_lines},
   with no gate run and no RepairAttempt for that attempt; so every recorded
   RepairAttempt has patch_lines <= max_patch_lines. *)

C5_WithinBudget ==
    /\ \A i \in 1..Len(attempts) : attempts[i].patch_lines <= Policy.max_patch_lines
    /\ PatchBudgetEscalated =>
          /\ Len(attempts) = attempt_num - 1
          /\ n_runs = attempt_num - 1
          /\ CountOp(log, "gate_run") = attempt_num - 1
          /\ result.evidence.patch_lines > Policy.max_patch_lines
          /\ Checkpointed(ws) = backups[attempt_num]

C5_BudgetStep ==
    pc = "patch"
       => IF patch_lines' > Policy.max_patch_lines
          THEN /\ pc' = "done"
               /\ result'.status = "escalated"
               /\ result'.reason_code = PATCH_BUDGET_EXCEEDED
               /\ result'.evidence = [attempt |-> attempt_num,
                                      patch_lines |-> patch_lines',
                                      max_patch_lines |-> Policy.max_patch_lines]
               /\ Checkpointed(ws') = backups[attempt_num]
               /\ log' = log \o <<[op |-> "restore", attempt |-> attempt_num],
                                  [op |-> "write_escalation", attempt |-> attempt_num]>>
               /\ UNCHANGED <<attempts, n_runs>>
          ELSE /\ pc' = "rerun"
               /\ UNCHANGED <<ws, log, result>>

C5_PatchBudget == [] C5_WithinBudget /\ [][C5_BudgetStep]_vars

\* the budget is exceeded in the second attempt, after one recorded attempt
C5_Witness == PatchBudgetEscalated /\ attempt_num = 2 /\ Len(attempts) = 1

----------------------------------------------------------------------------
(* C6: every attempt starts with the comparison of the elapsed time with
   time_cap_seconds, before its checkpoint, fix step and gate run; an elapsed
   time above the cap escalates at once with UNKNOWN_BLOCKER and evidence
   elapsed_seconds, and that attempt makes no checkpoint, runs no fix command
   and no gates, and leaves the workspace alone. *)

C6_NothingStarted ==
    TimeCapEscalated =>
       /\ elapsed > Policy.time_cap_seconds * TicksPerSecond
       /\ attempt_num \notin DOMAIN backups
       /\ ~HoldsMutationsOf(attempt_num)
       /\ \A i \in 1..Len(log) :
             log[i].attempt = attempt_num => log[i].op = "write_escalation"
       /\ Len(attempts) = attempt_num - 1
       /\ n_runs = attempt_num - 1

C6_TimeCapStep ==
    /\ pc' = "backup" => /\ pc = "loop"
                         /\ attempt_num' = attempt_num + 1
                         /\ elapsed' <= Policy.time_cap_seconds * TicksPerSecond
    /\ (pc = "loop" /\ attempt_num' = attempt_num + 1)
          => IF elapsed' > Policy.time_cap_seconds * TicksPerSecond
             THEN /\ pc' = "done"
                  /\ result'.status = "escalated"
                  /\ result'.reason_code = UNKNOWN_BLOCKER
                  /\ result'.evidence = [elapsed_seconds |-> elapsed' \div TicksPerSecond]
                  /\ log' = Append(log, [op |-> "write_escalation",
                                         attempt |-> attempt_num + 1])
                  /\ UNCHANGED <<ws, backups, attempts, actions, n_runs>>
             ELSE pc' = "backup"
    /\ (pc' \in {"fix", "patch", "rerun"} /\ pc' # pc) => pc # "loop"

C6_TimeCapFirst == [] C6_NothingStarted /\ [][C6_TimeCapStep]_vars

\* a cap of 0 seconds: the first check escalates in an untouched workspace
C6_Witness ==
    /\ TimeCapEscalated
    /\ Policy.time_cap_seconds = 0
    /\ attempt_num = 1
    /\ ws = InitialWorkspace
    /\ backups = <<>>
    /\ log = <<[op |-> "write_escalation", attempt |-> 1]>>

----------------------------------------------------------------------------
(* C7: the consecutive-no-improvement counter starts at 0; a non-converging
   attempt whose fresh finding count is strictly below its pre-attempt count
   resets it to 0, every other non-converging attempt (equal count, or
   worsened and rolled back) adds 1; the loop escalates with NO_IMPROVEMENT at
   the end of the first attempt after which the counter has reached
   abort_on_no_improvement. *)

C7_CounterBelowThreshold ==
    /\ attempts = <<>> => no_improvement = 0
    /\ no_improvement >= 0
    /\ (~Done /\ attempts # <<>> /\ pc # "stagnation" /\ pc # "rollback"
          /\ pc # "pass_check")
          => /\ no_improvement < Policy.abort_on_no_improvement
             /\ no_improvement <= Len(attempts)
    /\ StagnationEscalated => /\ no_improvement >= Policy.abort_on_no_improvement
                              /\ LastAttempt.attempt = attempt_num
                              /\ result.evidence.attempts = attempts

C7_CounterStep ==
    /\ pc = "stagnation"
          => LET counter == IF LastAttempt.after_findings < LastAttempt.before_findings
                            THEN 0 ELSE no_improvement + 1
             IN /\ no_improvement' = counter
                /\ IF counter >= Policy.abort_on_no_improvement
                   THEN /\ pc' = "done"
                        /\ result'.status = "escalated"
                        /\ result'.reason_code = NO_IMPROVEMENT
                   ELSE pc' = "loop"
    /\ pc # "stagnation" => no_improvement' = no_improvement

C7_StagnationCounter == [] C7_CounterBelowThreshold /\ [][C7_CounterStep]_vars

\* improved, then an equal count, then a worsened attempt: reset, 1, 2, abort
C7_Witness ==
    /\ StagnationEscalated
    /\ Policy.abort_on_no_improvement = 2
    /\ no_improvement = 2
    /\ Len(attempts) = 3
    /\ attempts[1].improved
    /\ ~attempts[2].improved /\ ~attempts[2].worsened
    /\ attempts[3].worsened

----------------------------------------------------------------------------
(* C8: in every attempt after the first, a fix engine that produces zero
   actions makes the loop escalate with NO_IMPROVEMENT at once, with no gate
   run and no RepairAttempt recorded; in the first attempt zero actions do not
   escalate and the gates are re-measured. *)

C8_NoStrategyOutcome ==
    /\ NoStrategyEscalated => /\ attempt_num > 1
                              /\ actions = <<>>
                              /\ Len(attempts) = attempt_num - 1
                              /\ n_runs = attempt_num - 1
    /\ (attempt_num = 1 /\ actions = <<>> /\ Done /\ attempts = <<>>)
          => TimeCapEscalated

C8_ZeroActionStep ==
    /\ (pc = "fix" /\ actions' = <<>>)
          => IF attempt_num > 1
             THEN /\ pc' = "done"
                  /\ result'.status = "escalated"
                  /\ result'.reason_code = NO_IMPROVEMENT
                  /\ log' = Append(log, [op |-> "write_escalation",
                                         attempt |-> attempt_num])
                  /\ UNCHANGED <<ws, attempts, n_runs>>
             ELSE pc' = "patch"
    /\ (pc = "patch" /\ attempt_num = 1 /\ actions = <<>>) => pc' = "rerun"
    /\ pc = "rerun" => /\ n_runs' = n_runs + 1
                       /\ Len(attempts') = Len(attempts) + 1
                       /\ attempts'[Len(attempts')].actions = actions
                       /\ log' = log \o <<[op |-> "gate_run", attempt |-> attempt_num],
                                          [op |-> "summarize", attempt |-> attempt_num]>>

----------------------------------------------------------------------------
(* C9: when max_attempts attempts have completed with no passing re-measure
   and no earlier escalation, the session escalates with UNKNOWN_BLOCKER and
   evidence naming the latest failures file; UNKNOWN_BLOCKER comes from
   attempt exhaustion and from the time cap check, and from nowhere else. *)

C9_ExhaustedOutcome ==
    /\ pc = "loop" => /\ Len(attempts) = attempt_num
                      /\ \A i \in 1..Len(attempts) : attempts[i].status = "fail"
    /\ (Escalated /\ result.reason_code = UNKNOWN_BLOCKER)
          => \/ /\ result.evidence = [latest_failures_path |-> FAILURES_FILE]
                /\ attempt_num = Policy.max_attempts
                /\ Len(attempts) = Policy.max_attempts
                /\ attempts # <<>> => pygate_files.failures = rerun
             \/ /\ DOMAIN result.evidence = {"elapsed_seconds"}
                /\ elapsed > Policy.time_cap_seconds * TicksPerSecond

C9_ExhaustionStep ==
    /\ (pc = "loop" /\ attempt_num = Policy.max_attempts)
          => /\ pc' = "done"
             /\ result'.status = "escalated"
             /\ result'.reason_code = UNKNOWN_BLOCKER
             /\ result'.evidence = [latest_failures_path |-> FAILURES_FILE]
    /\ (pc # "done" /\ pc' = "done" /\ result'.status = "escalated"
          /\ result'.reason_code = UNKNOWN_BLOCKER)
          => pc = "loop"

C9_UnknownBlocker == [] C9_ExhaustedOutcome /\ [][C9_ExhaustionStep]_vars

\* every allowed attempt was used and none passed
C9_Witness ==
    /\ ExhaustedEscalated
    /\ Policy.max_attempts >= 2
    /\ Len(attempts) = Policy.max_attempts

----------------------------------------------------------------------------
(* C10, as stated: whenever the session ends in an escalation for the patch
   size, the attempt count, the time cap or stagnation, the workspace holds
   no fix-engine mutation of the attempt that led to the escalation. *)

C10_Original ==
    (PatchBudgetEscalated \/ ExhaustedEscalated \/ TimeCapEscalated
        \/ StagnationEscalated)
       => ~HoldsMutationsOf(attempt_num)

(* C10, amended: an escalation is paired with a rollback exactly where the
   attempt was rejected.  A PATCH_BUDGET_EXCEEDED escalation, and a stagnation
   or exhaustion escalation whose last attempt worsened the finding count,
   leave the workspace at the checkpoint of that attempt, free of its
   mutations; a time cap escalation comes before its attempt mutates
   anything; a stagnation or exhaustion escalation whose last attempt did not
   worsen the count is not rolled back and keeps the mutations of that
   attempt. *)

RestoredIn(n) == \E i \in 1..Len(log) : log[i] = [op |-> "restore", attempt |-> n]

C10_RollbackPairing ==
    /\ PatchBudgetEscalated => /\ ~HoldsMutationsOf(attempt_num)
                               /\ Checkpointed(ws) = backups[attempt_num]
                               /\ RestoredIn(attempt_num)
    /\ TimeCapEscalated => /\ ~HoldsMutationsOf(attempt_num)
                           /\ ~RestoredIn(attempt_num)
    /\ ((StagnationEscalated \/ ExhaustedEscalated) /\ attempts # <<>>)
          => /\ LastAttempt.attempt = attempt_num
             /\ IF LastAttempt.worsened
                THEN /\ ~HoldsMutationsOf(attempt_num)
                     /\ Checkpointed(ws) = backups[attempt_num]
                     /\ RestoredIn(attempt_num)
                ELSE /\ ~RestoredIn(attempt_num)
                     /\ \A p \in DOMAIN backups[attempt_num] :
                           p \in DOMAIN ws /\
                           (ws[p] # backups[attempt_num][p] => ws[p].by = attempt_num)
    /\ (Escalated /\ HoldsMutationsOf(attempt_num))
          => /\ StagnationEscalated \/ ExhaustedEscalated
             /\ ~LastAttempt.worsened

\* a stagnation abort after a worsened attempt whose fix had changed files
C10_Witness ==
    /\ StagnationEscalated
    /\ LastAttempt.worsened
    /\ LastAttempt.patch_lines > 0
    /\ RestoredIn(attempt_num)
    /\ ~HoldsMutationsOf(attempt_num)

----------------------------------------------------------------------------
(* Vocabulary of the gate run properties *)

\* the snapshot of the latest gate run and the traces of its commands
Snapshot == rerun
HasRun == rerun # NoValue
CommandTraces == pygate_files.run_metadata.command_traces
FindingsOf(gate) == SelectSeq(Snapshot.findings, LAMBDA f : f.gate = gate)
GateResultOf(gate) ==
    CHOOSE gr \in Range(Snapshot.gates) : gr.name = gate
TracesOf(gate) == SelectSeq(CommandTraces, LAMBDA t : t.gate = gate)
GateNames == <<"lint", "typecheck", "test">>

----------------------------------------------------------------------------
(* C11: in every gate run the overall status, as written to failures.json
   and as returned by execute_run, is fail if and only if the aggregated
   findings list is non-empty, and pass if and only if it is empty. *)

C11_StatusIffFindings ==
    (HasRun /\ pc # "exited")
       => /\ Snapshot.status = "fail" <=> Snapshot.findings # <<>>
          /\ Snapshot.status = "pass" <=> Snapshot.findings = <<>>
          /\ pygate_files.failures = Snapshot
          /\ result.status = Snapshot.status
          /\ result.run_id = Snapshot.run_id

\* a failing run in which one gate passed and another was skipped
C11_Witness ==
    /\ HasRun /\ pc # "exited"
    /\ Snapshot.status = "fail"
    /\ Len(Snapshot.findings) >= 3
    /\ GateResultOf("typecheck").status = "pass"
    /\ GateResultOf("test").status = "skipped"

----------------------------------------------------------------------------
(* C12: when the command of an enabled gate exits non-zero and its adapter
   yields no finding, the gate runner adds exactly one synthetic finding for
   the gate, with severity high and the id <gate>_exit_<exit code>; so a run
   in which an enabled gate exits non-zero has a finding and status fail. *)

C12_FallbackFinding ==
    HasRun =>
      \A i \in 1..Len(CommandTraces) :
         LET t == CommandTraces[i]
         IN /\ (t.exit_code # 0 /\ ParseGateOutput(t.gate, t) = <<>>)
                 => /\ Len(FindingsOf(t.gate)) = 1
                    /\ FindingsOf(t.gate)[1].id = <<t.gate, "exit", t.exit_code>>
                    /\ FindingsOf(t.gate)[1].severity = "high"
                    /\ FindingsOf(t.gate)[1].gate = t.gate
            /\ t.exit_code # 0 => /\ FindingsOf(t.gate) # <<>>
                                  /\ Snapshot.status = "fail"
            /\ (t.exit_code # 0 /\ ParseGateOutput(t.gate, t) # <<>>)
                 => \A k \in 1..Len(FindingsOf(t.gate)) :
                       FindingsOf(t.gate)[k].id # <<t.gate, "exit", t.exit_code>>

\* pyright exits 2 with only an information diagnostic, ruff reports defects
C12_Witness ==
    /\ HasRun
    /\ \E i \in 1..Len(CommandTraces) :
          /\ CommandTraces[i].gate = "typecheck"
          /\ CommandTraces[i].exit_code = 2
          /\ CommandTraces[i].output.kind = "dict"
          /\ CommandTraces[i].output.items # <<>>
    /\ FindingsOf("typecheck") = <<FindingForExitCode("typecheck", 2)>>
    /\ Len(FindingsOf("lint")) = 2

----------------------------------------------------------------------------
(* C13: in every gate run lint and typecheck are enabled, and the test gate
   is enabled if and only if the mode is full or test_in_canary is set; a
   disabled gate has a GateResult with status skipped and duration 0, runs no
   command, adds no trace and contributes no finding. *)

C13_GateSelection ==
    HasRun =>
      /\ [i \in 1..Len(Snapshot.gates) |-> Snapshot.gates[i].name] = GateNames
      /\ GateResultOf("lint").status # "skipped"
      /\ GateResultOf("typecheck").status # "skipped"
      /\ GateResultOf("test").status # "skipped"
            <=> (Snapshot.mode = "full" \/ config.gates.test_in_canary)
      /\ \A i \in 1..3 :
            LET gr == Snapshot.gates[i]
            IN IF gr.status = "skipped"
               THEN /\ gr.duration_ms = 0
                    /\ TracesOf(gr.name) = <<>>
                    /\ FindingsOf(gr.name) = <<>>
                    /\ ~ \E k \in 1..Len(log) :
                           log[k] = [op |-> gr.name, attempt |-> n_runs]
               ELSE /\ Len(TracesOf(gr.name)) = 1
                    /\ \E k \in 1..Len(log) :
                           log[k] = [op |-> gr.name, attempt |-> n_runs]

\* canary mode with test_in_canary set: the test gate ran and failed
C13_Witness ==
    /\ HasRun
    /\ Snapshot.mode = "canary"
    /\ config.gates.test_in_canary
    /\ GateResultOf("test").status = "fail"
    /\ Len(CommandTraces) = 3

----------------------------------------------------------------------------
(* C14: the GateResult of an enabled gate is fail if and only if the exit
   code of its command is non-zero, and pass otherwise; a failed gate
   contributes at least one finding, a passed or skipped gate none (its
   adapter is not consulted); the run passes exactly when no gate failed. *)

C14_GateStatus ==
    HasRun =>
      /\ \A i \in 1..Len(CommandTraces) :
            LET t == CommandTraces[i]
            IN /\ GateResultOf(t.gate).status = "fail" <=> t.exit_code # 0
               /\ GateResultOf(t.gate).status = "pass" <=> t.exit_code = 0
      /\ \A i \in 1..3 :
            LET gr == Snapshot.gates[i]
            IN /\ gr.status \in {"pass", "fail", "skipped"}
               /\ gr.status = "fail" => Len(FindingsOf(gr.name)) >= 1
               /\ gr.status # "fail" => FindingsOf(gr.name) = <<>>
      /\ \A k \in 1..Len(Snapshot.findings) :
            GateResultOf(Snapshot.findings[k].gate).status = "fail"
      /\ Snapshot.status = "pass"
            <=> \A i \in 1..3 : Snapshot.gates[i].status # "fail"

\* ruff exits 0 although its output lists defects: the gate passes, no finding
C14_Witness ==
    /\ HasRun
    /\ \E i \in 1..Len(CommandTraces) :
          /\ CommandTraces[i].gate = "lint"
          /\ CommandTraces[i].exit_code = 0
          /\ ParseRuffOutput(CommandTraces[i].output) # <<>>
    /\ GateResultOf("lint").status = "pass"
    /\ FindingsOf("lint") = <<>>
    /\ GateResultOf("typecheck").status = "fail"

----------------------------------------------------------------------------
(* C19: finding ids are stable across gate runs: a defect (same gate, rule,
   file and line) that is present unchanged in two successive runs has the
   same finding id in both, also when other defects reported by the same
   checker were fixed or added between the two runs. *)

\* the snapshot of the run before the latest one
Previous == failures
SameDefect(f, g) ==
    /\ f.gate = g.gate
    /\ f.rule = g.rule
    /\ f.files = g.files
    /\ f.line = g.line
\* the finding at position i is the only report of its defect in the snapshot
OnlyReport(snapshot, i) ==
    /\ snapshot.findings[i].files # <<>>
    /\ \A k \in 1..Len(snapshot.findings) :
          SameDefect(snapshot.findings[k], snapshot.findings[i]) => k = i

C19_StableIds ==
    (n_runs = 2 /\ Previous # NoValue /\ HasRun)
       => \A i \in 1..Len(Previous.findings) :
             \A j \in 1..Len(Snapshot.findings) :
                (/\ OnlyReport(Previous, i)
                 /\ OnlyReport(Snapshot, j)
                 /\ SameDefect(Previous.findings[i], Snapshot.findings[j]))
                   => Previous.findings[i].id = Snapshot.findings[j].id

----------------------------------------------------------------------------
(* Vocabulary of the fix engine properties *)

\* the files offered to the fix engine, in the order it reads them
Offered ==
    failures.changed_files
       \o Concat([i \in 1..Len(failures.findings) |-> failures.findings[i].files])
FirstIndex(seq, x) ==
    CHOOSE i \in 1..Len(seq) : seq[i] = x /\ \A k \in 1..(i - 1) : seq[k] # x
NoLintFinding == \A i \in 1..Len(failures.findings) : failures.findings[i].gate # "lint"
NothingEligible == \A i \in 1..Len(Offered) : ~IsEligible(Offered[i])
PrefixCall == pc \in {"prefix", "prefix_again"}

----------------------------------------------------------------------------
(* C15: run_deterministic_prefix returns an empty action list, runs no
   command and leaves the workspace untouched whenever the snapshot has no
   finding of the lint gate, and whenever no eligible file is in scope;
   calling it again in that situation is again a no-op. *)

C15_NoOp ==
    [][(PrefixCall /\ (NoLintFinding \/ NothingEligible))
          => (actions' = <<>> /\ ws' = ws /\ log' = log)]_vars

\* two calls on a snapshot with eligible files but only typecheck findings
C15_Witness ==
    /\ pc = "prefix_done"
    /\ attempt_num = 2
    /\ NoLintFinding /\ ~NothingEligible
    /\ failures.findings # <<>>
    /\ actions = <<>> /\ log = <<>> /\ ws = InitialWorkspace

----------------------------------------------------------------------------
(* C16: with a lint finding and a non-empty eligible scope,
   run_deterministic_prefix issues exactly two actions, RUFF_AUTOFIX then
   RUFF_FORMAT, over the same scoped file list; the format pass runs
   whatever the exit code of the fix pass; the fix action is accepted iff its
   exit code is 0 or 1, the format action iff its exit code is 0. *)

C16_TwoActions ==
    [][(PrefixCall /\ ~NoLintFinding /\ ~NothingEligible)
          => /\ Len(actions') = 2
             /\ actions'[1].rule_id = "RUFF_AUTOFIX"
             /\ actions'[2].rule_id = "RUFF_FORMAT"
             /\ actions'[1].files = actions'[2].files
             /\ actions'[1].files # <<>>
             /\ actions'[1].accepted <=> actions'[1].exit_code \in {0, 1}
             /\ actions'[2].accepted <=> actions'[2].exit_code = 0
             /\ log' = log \o <<[op |-> "ruff_fix", attempt |-> attempt_num'],
                                [op |-> "ruff_format", attempt |-> attempt_num']>>]_vars

\* the fix pass exits 2 and is rejected, the format pass still runs and is accepted
C16_Witness ==
    /\ pc = "prefix_again"
    /\ Len(actions) = 2
    /\ actions[1].exit_code = 2 /\ ~actions[1].accepted
    /\ actions[2].exit_code = 0 /\ actions[2].accepted
    /\ log = <<[op |-> "ruff_fix", attempt |-> 1], [op |-> "ruff_format", attempt |-> 1]>>

----------------------------------------------------------------------------
(* C17: the scope of the fix engine is the union of the changed-file list and
   the file references inside lint findings only: a file referenced solely by
   a typecheck or test finding, and not in the changed-file list, is never
   passed to the fix commands. *)

InLintScope(f) ==
    \/ f \in Range(failures.changed_files)
    \/ \E i \in 1..Len(failures.findings) :
          /\ failures.findings[i].gate = "lint"
          /\ f \in Range(failures.findings[i].files)

C17_LintScopeOnly ==
    /\ pc \in {"prefix", "prefix_again", "prefix_done"}
          => \A f \in Range(result) : InLintScope(f)
    /\ pc \in {"prefix_again", "prefix_done"}
          => \A k \in 1..Len(actions) : \A f \in Range(actions[k].files) : InLintScope(f)

----------------------------------------------------------------------------
(* C18: _collect_scoped_files returns at most 20 files, all eligible, without
   duplicates, in first-seen order (changed files first, then finding files
   in finding order); when more than 20 distinct eligible files are offered
   the result is exactly the first 20 of that order. *)

C18_CappedScope ==
    pc \in {"prefix", "prefix_again", "prefix_done"}
       => /\ Len(result) <= 20
          /\ \A i \in 1..Len(result) :
                /\ IsEligible(result[i])
                /\ result[i] \in Range(Offered)
                /\ \A j \in 1..Len(result) : result[i] = result[j] => i = j
                /\ \A j \in (i + 1)..Len(result) :
                      FirstIndex(Offered, result[i]) < FirstIndex(Offered, result[j])
          /\ \A k \in 1..Len(Offered) :
                (IsEligible(Offered[k]) /\ Offered[k] \notin Range(result))
                   => /\ Len(result) = 20
                      /\ \A i \in 1..Len(result) : FirstIndex(Offered, result[i]) < k

\* nineteen changed files, the cap is reached among the finding files
C18_Witness ==
    /\ pc = "prefix"
    /\ Len(result) = 20
    /\ result[20] \notin Range(failures.changed_files)
    /\ \E k \in 1..Len(Offered) : IsEligible(Offered[k]) /\ Offered[k] \notin Range(result)
    /\ \E k \in 1..Len(Offered) : ~IsEligible(Offered[k])

----------------------------------------------------------------------------
(* C20: the exit code of the CLI process follows the outcome: run exits 0 if
   the snapshot status is pass and 1 otherwise; summarize always exits 0;
   repair exits 0 if execute_repair converged and 2 for every escalation,
   whatever the reason code. *)

C20_ExitCodes ==
    /\ pc \in {"run_1", "loop", "backup", "fix", "patch", "rerun", "pass_check",
               "rollback", "stagnation"} => exit_status = NotExited
    /\ pc \in {"run_2", "summarize"}
          => /\ pygate_files.failures.status \in {"pass", "fail"}
             /\ exit_status = (IF pygate_files.failures.status = "pass" THEN 0 ELSE 1)
    /\ pc = "exited" => exit_status = 0
    /\ Done => /\ result.status \in {"pass", "escalated"}
               /\ result.status = "pass" => exit_status = 0
               /\ result.status = "escalated"
                     => /\ exit_status = 2
                        /\ result.reason_code \in {NO_IMPROVEMENT, PATCH_BUDGET_EXCEEDED,
                                                   UNKNOWN_BLOCKER}

\* repair ends in a patch budget escalation and the process exits 2
C20_Witness ==
    /\ Escalated
    /\ result.reason_code = PATCH_BUDGET_EXCEEDED
    /\ exit_status = 2

----------------------------------------------------------------------------
(* C21: the summarizer emits exactly one priority action per finding, in
   finding order; its scope depends only on the number of files of the
   finding: one file gives single_file, two or three give multi_file, four or
   more give cross_module, and no file gives multi_file. *)

Brief == pygate_files.agent_brief
Summarized == pygate_files.failures

C21_PriorityActions ==
    pc = "exited"
       => /\ Len(Brief.priority_actions) = Len(Summarized.findings)
          /\ \A i \in 1..Len(Summarized.findings) :
                LET f == Summarized.findings[i]
                    a == Brief.priority_actions[i]
                IN /\ a.finding_id = f.id
                   /\ a.target_files = f.files
                   /\ Len(f.files) = 1 => a.scope = "single_file"
                   /\ Len(f.files) \in {2, 3} => a.scope = "multi_file"
                   /\ Len(f.files) >= 4 => a.scope = "cross_module"
                   /\ Len(f.files) = 0 => a.scope = "multi_file"

\* a brief for findings with no file, one file and five files, in that order
C21_Witness ==
    /\ pc = "exited"
    /\ Len(Summarized.findings) = 3
    /\ Len(Summarized.findings[1].files) = 0
    /\ Len(Summarized.findings[2].files) = 1
    /\ Len(Summarized.findings[3].files) = 5
    /\ [i \in 1..3 |-> Brief.priority_actions[i].scope]
          = <<"multi_file", "single_file", "cross_module">>

----------------------------------------------------------------------------
(* C22: load_config resolves the configuration in three tiers: pygate.toml if
   it exists (pyproject.toml is then ignored); else a non-empty [tool.pygate]
   section of pyproject.toml; else the built-in defaults.  In the first two
   cases every policy key the chosen file does not set keeps its default
   (max_attempts 3, max_patch_lines 150, abort_on_no_improvement 2,
   time_cap_seconds 1200). *)

HasPygateToml == PygateToml \in DOMAIN ws
ToolPygate ==
    IF Pyproject \in DOMAIN ws /\ "tool" \in DOMAIN ws[Pyproject]
       /\ "pygate" \in DOMAIN ws[Pyproject].tool
    THEN ws[Pyproject].tool.pygate
    ELSE EmptyTable
\* the policy the chosen table must give
PolicyFrom(table) ==
    [k \in {"max_attempts", "max_patch_lines", "abort_on_no_improvement",
            "time_cap_seconds"} |->
       IF "policy" \in DOMAIN table /\ k \in DOMAIN table.policy
       THEN table.policy[k]
       ELSE CASE k = "max_attempts" -> 3
              [] k = "max_patch_lines" -> 150
              [] k = "abort_on_no_improvement" -> 2
              [] k = "time_cap_seconds" -> 1200]

C22_ThreeTiers ==
    pc = "loaded"
       => IF HasPygateToml
          THEN /\ config.source = PygateToml
               /\ config.policy = PolicyFrom(ws[PygateToml])
          ELSE IF ToolPygate # EmptyTable
          THEN /\ config.source = Pyproject
               /\ config.policy = PolicyFrom(ToolPygate)
          ELSE /\ config.source = "defaults"
               /\ config.policy = PolicyFrom(EmptyTable)

\* both files set max_attempts; pygate.toml wins and the other keys are defaults
C22_Witness ==
    /\ pc = "loaded"
    /\ HasPygateToml
    /\ ToolPygate # EmptyTable
    /\ "policy" \in DOMAIN ws[PygateToml]
    /\ DOMAIN ws[PygateToml].policy = {"max_attempts"}
    /\ "policy" \in DOMAIN ToolPygate
    /\ "max_patch_lines" \in DOMAIN ToolPygate.policy
    /\ config.policy = [max_attempts |-> PygateTomlValue, max_patch_lines |-> 150,
                        abort_on_no_improvement |-> 2, time_cap_seconds |-> 1200]

----------------------------------------------------------------------------
(* C23: between attempts of the repair loop the FailuresPayload persisted in
   failures.json is the loop's single current failures snapshot (the one the
   next attempt's fix engine and baseline count use), so that the loop state
   can be rebuilt from disk; this holds after every attempt, also after an
   attempt that worsened the findings and was rolled back. *)

BetweenAttempts == pc = "loop"

C23_DiskIsCurrent ==
    BetweenAttempts
       => /\ pygate_files.failures = failures
          /\ Len(pygate_files.failures.findings) = previous_count

----------------------------------------------------------------------------
(* C24: every recorded RepairAttempt corresponds to exactly one gate re-run,
   performed after the fix step of that attempt with the mode and the
   changed-file list of the session; its after_findings is the finding count
   of the snapshot of that re-run; the summarizer artifacts are regenerated
   from the same snapshot before the pass check; so the number of gate
   re-runs of a session equals the number of recorded attempts. *)

EventsOf(op, n) == {i \in 1..Len(log) : log[i] = [op |-> op, attempt |-> n]}
Remeasured == pc \in {"pass_check", "rollback", "stagnation"}

C24_RerunPerAttempt ==
    /\ n_runs = Len(attempts)
    /\ CountOp(log, "gate_run") = Len(attempts)
    /\ \A k \in 1..Len(attempts) :
          /\ attempts[k].attempt = k
          /\ Cardinality(EventsOf("gate_run", k)) = 1
          /\ \A i \in EventsOf("gate_run", k) :
                /\ \A j \in EventsOf("backup", k) \cup EventsOf("ruff_fix", k)
                               \cup EventsOf("ruff_format", k) : j < i
                /\ EventsOf("summarize", k) = {i + 1}
    /\ Remeasured
          => /\ LastAttempt.attempt = attempt_num
             /\ LastAttempt.after_findings = Len(rerun.findings)
             /\ LastAttempt.status = rerun.status
             /\ rerun.run_id = n_runs
             /\ pygate_files.failures = rerun
             /\ pygate_files.agent_brief.run_id = rerun.run_id
             /\ pygate_files.agent_brief.status = rerun.status
             /\ Len(pygate_files.agent_brief.priority_actions) = Len(rerun.findings)

C24_RemeasureStep ==
    /\ failures'.mode = failures.mode
    /\ failures'.changed_files = failures.changed_files
    /\ IF pc = "rerun"
       THEN /\ rerun'.mode = failures.mode
            /\ rerun'.changed_files = failures.changed_files
            /\ n_runs' = n_runs + 1
            /\ Len(attempts') = Len(attempts) + 1
            /\ pc' = "pass_check"
       ELSE /\ n_runs' = n_runs
            /\ attempts' = attempts
            /\ rerun' = rerun

C24_FreshRemeasure == [] C24_RerunPerAttempt /\ [][C24_RemeasureStep]_vars

\* the second re-run of a session, after a fix step that ran both commands
C24_Witness ==
    /\ pc = "pass_check"
    /\ attempt_num = 2
    /\ Len(attempts) = 2
    /\ actions # <<>>
    /\ attempts[1].after_findings # attempts[2].after_findings
    /\ attempts[2].after_findings # attempts[2].before_findings

----------------------------------------------------------------------------
(* C25: severity is a pure function of the checker's classification.  The
   lint adapter maps a rule code starting with E or F to high and every other
   code, the empty code included, to medium.  The typecheck adapter drops
   every diagnostic of severity information, so that no typecheck finding has
   severity low, and maps error to high, warning and any other value to
   medium. *)

ParsedTrace == pygate_files.run_metadata.command_traces[1]
\* the diagnostics the typecheck adapter keeps
KeptDiagnostics == SelectSeq(ParsedTrace.output.items, LAMBDA d : d.severity # "information")

TypecheckSeverities ==
    (pc = "parsed" /\ ParsedTrace.gate = "typecheck")
       => /\ Len(result) = Len(KeptDiagnostics)
          /\ \A n \in 1..Len(result) :
                /\ result[n].severity # "low"
                /\ result[n].severity
                      = (IF KeptDiagnostics[n].severity = "error" THEN "high" ELSE "medium")

\* as stated: only a code that starts with the capital letter E or F is high
C25_Original ==
    /\ (pc = "parsed" /\ ParsedTrace.gate = "lint")
          => /\ Len(result) = Len(ParsedTrace.output.items)
             /\ \A n \in 1..Len(result) :
                   LET code == ParsedTrace.output.items[n].code
                   IN result[n].severity
                         = (IF code # <<>> /\ code[1] \in {"E", "F"} THEN "high"
                            ELSE "medium")
    /\ TypecheckSeverities

\* amended: the prefix is compared after upper-casing, so e and f count as E and F
C25_SeverityMapping ==
    /\ (pc = "parsed" /\ ParsedTrace.gate = "lint")
          => /\ Len(result) = Len(ParsedTrace.output.items)
             /\ \A n \in 1..Len(result) :
                   LET code == ParsedTrace.output.items[n].code
                   IN result[n].severity
                         = (IF code # <<>> /\ code[1] \in {"E", "F", "e", "f"} THEN "high"
                            ELSE "medium")
    /\ TypecheckSeverities

\* a lower-case e code is high, next to an empty code that is medium
C25_Witness ==
    /\ pc = "parsed"
    /\ ParsedTrace.gate = "lint"
    /\ Len(result) = 2
    /\ ParsedTrace.output.items[1].code = <<"e", 501>>
    /\ result[1].severity = "high"
    /\ ParsedTrace.output.items[2].code = <<>>
    /\ result[2].severity = "medium"

----------------------------------------------------------------------------
(* C26: if the input snapshot has both lint and typecheck findings, the first
   attempt's fixes clear all lint findings, and the typecheck findings persist
   on every re-run, then with max_attempts >= 2 the session ends ESCALATED
   with reason NO_IMPROVEMENT: attempt 1 is recorded as improved, and attempt
   2 escalates with no fix command run and no gate re-run. *)

TypecheckOnly(snapshot) ==
    /\ snapshot.findings # <<>>
    /\ \A i \in 1..Len(snapshot.findings) : snapshot.findings[i].gate = "typecheck"

\* attempt 1 ran the fix commands and its re-run found the lint findings of
\* the input gone and the typecheck findings still there
MixedScenario ==
    /\ Len(attempts) = 1
    /\ attempts[1].actions # <<>>
    /\ rerun # NoValue
    /\ TypecheckOnly(rerun)
    /\ attempts[1].before_findings = MaxLint + Len(rerun.findings)
    /\ Policy.max_attempts >= 2

NothingRunIn(n) ==
    EventsOf("ruff_fix", n) \cup EventsOf("ruff_format", n) \cup EventsOf("gate_run", n) = {}

\* as stated: the session always ends in attempt 2 with NO_IMPROVEMENT
C26_Original ==
    MixedScenario
       => /\ attempts[1].improved
          /\ NothingRunIn(2)
          /\ Done => /\ Escalated
                     /\ result.reason_code = NO_IMPROVEMENT
                     /\ attempt_num = 2

\* amended: the zero-action abort of attempt 2 is the end unless the time cap
\* is exceeded when attempt 2 starts, or the abort threshold is at most 0 and
\* the stagnation check ends the session after attempt 1
C26_ScenarioEnd ==
    MixedScenario
       => /\ attempts[1].improved
          /\ ~attempts[1].worsened
          /\ NothingRunIn(2)
          /\ Done => \/ /\ NoStrategyEscalated
                        /\ attempt_num = 2
                        /\ Policy.abort_on_no_improvement >= 1
                        /\ result.evidence.attempts = attempts
                     \/ /\ TimeCapEscalated
                        /\ attempt_num = 2
                        /\ Policy.abort_on_no_improvement >= 1
                        /\ elapsed > Policy.time_cap_seconds * TicksPerSecond
                     \/ /\ StagnationEscalated
                        /\ attempt_num = 1
                        /\ Policy.abort_on_no_improvement <= 0

\* once the scenario holds no further attempt is recorded
C26_NoSecondRecord == MixedScenario => attempts' = attempts

C26_MixedScenario == [] C26_ScenarioEnd /\ [][C26_NoSecondRecord]_vars

\* attempt 2 ended the session on the zero-action path
C26_Witness ==
    /\ MixedScenario
    /\ NoStrategyEscalated
    /\ attempt_num = 2
    /\ result.evidence.remaining_gates = {"typecheck"}

----------------------------------------------------------------------------
(* C27: when the loop escalates with NO_IMPROVEMENT because the stagnation
   counter reached the abort threshold, the escalation evidence contains the
   full attempt history of the session (every recorded attempt, in order) and
   the set of gates that still have findings. *)

StagnationAbort == Escalated /\ result.message[1] = "No measurable improvement"
RemainingGates == {failures.findings[i].gate : i \in 1..Len(failures.findings)}

C27_StagnationEvidence ==
    StagnationAbort
       => /\ result.reason_code = NO_IMPROVEMENT
          /\ "attempts" \in DOMAIN result.evidence
          /\ result.evidence.attempts = attempts
          /\ "remaining_gates" \in DOMAIN result.evidence
          /\ result.evidence.remaining_gates = RemainingGates

----------------------------------------------------------------------------
(* C28: only the repair loop mutates the project workspace, and only through
   the fix engine and the rollback: execute_run and execute_summarize create
   or overwrite files only under the .pygate state directory and leave every
   other workspace file unchanged, in every call and in every order of
   calls. *)

\* the files of the state directory that a step may write
WritesOnly(names) ==
    /\ DOMAIN pygate_files' = DOMAIN pygate_files
    /\ \A f \in DOMAIN pygate_files : f \notin names => pygate_files'[f] = pygate_files[f]

\* the step appends the events of the fix commands, or of a rollback
FixCommandsRun ==
    /\ Len(log') = Len(log) + 2
    /\ log'[Len(log) + 1] = [op |-> "ruff_fix", attempt |-> attempt_num]
RolledBack ==
    /\ Len(log') >= Len(log) + 1
    /\ log'[Len(log) + 1] = [op |-> "restore", attempt |-> attempt_num]

C28_Step ==
    /\ pc \in {"run_1", "run_2"}
          => ws' = ws /\ WritesOnly({"failures", "run_metadata"})
    /\ pc = "summarize"
          => ws' = ws /\ WritesOnly({"agent_brief"})
    /\ pc = "rerun"
          => ws' = ws /\ WritesOnly({"failures", "run_metadata", "agent_brief"})
    /\ ws' # ws
          => \/ pc = "fix" /\ FixCommandsRun
             \/ pc \in {"patch", "rollback"} /\ RolledBack

C28_WorkspaceFrame == [][C28_Step]_vars

\* gates re-run and brief regenerated on a workspace the fix commands rewrote
C28_Witness ==
    /\ pc = "pass_check"
    /\ HoldsMutationsOf(attempt_num)
    /\ pygate_files.failures = rerun
    /\ pygate_files.agent_brief = ExecuteSummarize(rerun)
    /\ pygate_files.agent_brief.priority_actions # <<>>

----------------------------------------------------------------------------
(* C29: in every gate run the commands of the enabled gates are invoked
   exactly once each, one after another in the fixed order lint, typecheck,
   test; a gate that fails neither prevents the later gates from running nor
   is re-invoked; the result always holds exactly three GateResults in that
   order, one trace per enabled gate in that order, and findings grouped in
   that gate order. *)

GateEnabled(gate) ==
    gate # "test" \/ Snapshot.mode = "full" \/ config.gates.test_in_canary
EnabledGates == SelectSeq(GateNames, GateEnabled)
GatePosition(gate) == CHOOSE i \in 1..Len(GateNames) : GateNames[i] = gate
\* the gate commands invoked by run n, in the order of their invocation
InvokedIn(n) ==
    LET invoked(e) == e.attempt = n /\ e.op \in Range(GateNames)
        events == SelectSeq(log, invoked)
    IN [i \in 1..Len(events) |-> events[i].op]

C29_GateOrder ==
    HasRun
       => /\ [i \in 1..Len(Snapshot.gates) |-> Snapshot.gates[i].name] = GateNames
          /\ \A i \in 1..Len(Snapshot.gates) :
                (Snapshot.gates[i].status = "skipped") <=> ~GateEnabled(Snapshot.gates[i].name)
          /\ [i \in 1..Len(CommandTraces) |-> CommandTraces[i].gate] = EnabledGates
          /\ \A n \in 1..n_runs : IF n = n_runs THEN InvokedIn(n) = EnabledGates
                                  ELSE Len(InvokedIn(n)) \in {2, 3}
          /\ \A i, j \in 1..Len(Snapshot.findings) :
                i < j => GatePosition(Snapshot.findings[i].gate)
                            <= GatePosition(Snapshot.findings[j].gate)

\* lint and typecheck both failed and the test gate still ran, once
C29_Witness ==
    /\ HasRun
    /\ Snapshot.mode = "full"
    /\ FindingsOf("lint") # <<>>
    /\ FindingsOf("typecheck") # <<>>
    /\ GateResultOf("test").status = "fail"
    /\ InvokedIn(n_runs) = GateNames

----------------------------------------------------------------------------
(* C30: at the start of every attempt, the loop's current failures snapshot
   and baseline finding count describe exactly the workspace content present
   at that moment, provided the input snapshot described the initial
   workspace and gate results are a function of workspace content: after an
   accepted attempt the snapshot is the one measured on the mutated
   workspace, and after a worsened attempt the workspace is back to the
   content on which the retained snapshot was measured. *)

\* the files a checkpoint leaves out; the fix commands never write them
NotCheckpointed(tree) ==
    [p \in {q \in DOMAIN tree : \E i \in 1..Len(q) : q[i] \in BACKUP_EXCLUDES}
        |-> tree[p]]

\* the workspace as it was when the checkpoint of the current attempt was taken
AtCheckpoint == backups[attempt_num] @@ NotCheckpointed(ws)

\* between attempts the snapshot of an accepted attempt is its own re-run
C30_AcceptedSnapshot ==
    /\ (BetweenAttempts /\ attempts = <<>>)
          => previous_count = Len(failures.findings)
    /\ (BetweenAttempts /\ attempts # <<>> /\ ~LastAttempt.worsened)
          => failures = rerun /\ previous_count = Len(rerun.findings)

\* the workspace moves only in the fix step; a worsened attempt puts it back
\* to its content at checkpoint time and keeps the snapshot measured on it
C30_Step ==
    /\ pc \in {"loop", "backup", "rerun", "pass_check", "stagnation"} => ws' = ws
    /\ pc = "backup" => backups'[attempt_num] = Checkpointed(ws)
    /\ (pc = "rollback" /\ ~LastAttempt.worsened)
          => ws' = ws /\ failures' = rerun /\ previous_count' = Len(rerun.findings)
    /\ (pc = "rollback" /\ LastAttempt.worsened)
          => /\ failures' = failures
             /\ previous_count' = previous_count
             /\ ws' = AtCheckpoint

C30_SnapshotDescribesWorkspace == [] C30_AcceptedSnapshot /\ [][C30_Step]_vars

----------------------------------------------------------------------------
(* C31: in the attempt history of any session, before_findings of attempt 1
   equals the finding count of the input snapshot, and for every recorded
   attempt k followed by a recorded attempt k+1, before_findings of k+1 equals
   after_findings of k when k was not worsened and equals before_findings of
   k when k was worsened; hence the baseline finding count never increases
   during a session. *)

\* until the first re-run failures.json is the input snapshot
InputCount == Len(pygate_files.failures.findings)

C31_History ==
    /\ attempts = <<>> => previous_count = InputCount
    /\ \A k \in 1..(Len(attempts) - 1) :
          /\ attempts[k + 1].before_findings
                = (IF attempts[k].worsened THEN attempts[k].before_findings
                   ELSE attempts[k].after_findings)
          /\ attempts[k + 1].before_findings <= attempts[k].before_findings
    /\ attempts # <<>> => previous_count <= attempts[1].before_findings

C31_Step ==
    /\ previous_count' <= previous_count
    /\ (attempts = <<>> /\ attempts' # <<>>)
          => attempts'[1].before_findings = InputCount

C31_BaselineChain == [] C31_History /\ [][C31_Step]_vars

\* a worsened attempt followed by an improved one followed by a third
C31_Witness ==
    /\ Len(attempts) = 3
    /\ attempts[1].worsened
    /\ attempts[2].before_findings = attempts[1].before_findings
    /\ attempts[2].improved
    /\ attempts[3].before_findings = attempts[2].after_findings
    /\ attempts[3].before_findings < attempts[1].before_findings

----------------------------------------------------------------------------
(* C32: the attempt list is an append-only ordered sequence: recorded
   attempts carry the consecutive indices 1, 2, ..., n in order, an entry once
   appended is never changed or removed, and in every entry improved holds
   exactly when after_findings < before_findings, worsened holds exactly when
   after_findings > before_findings, and the two flags are never both
   true. *)

C32_Entries ==
    \A k \in 1..Len(attempts) :
       /\ attempts[k].attempt = k
       /\ attempts[k].improved <=> attempts[k].after_findings < attempts[k].before_findings
       /\ attempts[k].worsened <=> attempts[k].after_findings > attempts[k].before_findings
       /\ ~(attempts[k].improved /\ attempts[k].worsened)

C32_Append ==
    \/ attempts' = attempts
    \/ /\ Len(attempts') = Len(attempts) + 1
       /\ SubSeq(attempts', 1, Len(attempts)) = attempts
       /\ pc = "rerun"

C32_AppendOnly == [] C32_Entries /\ [][C32_Append]_vars

\* three entries: one worsened, one improved, one neither
C32_Witness ==
    /\ Len(attempts) = 3
    /\ \E i, j, k \in 1..3 :
          /\ attempts[i].worsened
          /\ attempts[j].improved
          /\ ~attempts[k].improved /\ ~attempts[k].worsened

----------------------------------------------------------------------------
(* C33: every escalation record produced by the repair loop has status
   "escalated" and a reason code from the closed set {NO_IMPROVEMENT,
   PATCH_BUDGET_EXCEEDED, UNKNOWN_BLOCKER}; no other reason code is ever
   written to escalation.json by execute_repair. *)

RepairReasonCodes == {NO_IMPROVEMENT, PATCH_BUDGET_EXCEEDED, UNKNOWN_BLOCKER}

C33_ReasonCodes ==
    /\ pygate_files.escalation # NoFile
          => /\ pygate_files.escalation.status = "escalated"
             /\ pygate_files.escalation.reason_code \in RepairReasonCodes
             /\ Done
             /\ result = pygate_files.escalation
    /\ (Done /\ ~Converged)
          => /\ result.status = "escalated"
             /\ result.reason_code \in RepairReasonCodes
             /\ pygate_files.escalation = result

\* the attempts ran out and the record with UNKNOWN_BLOCKER is on disk
C33_Witness ==
    /\ ExhaustedEscalated
    /\ Len(attempts) = Policy.max_attempts
    /\ Len(attempts) >= 1
    /\ pygate_files.escalation.reason_code = UNKNOWN_BLOCKER
    /\ pygate_files.escalation.status = "escalated"

----------------------------------------------------------------------------
(* C34: checkpoint followed by rollback is the identity on the workspace: for
   every workspace tree and every set of changes made between
   _backup_workspace and _restore_workspace, the workspace tree after the
   rollback is identical to the tree at checkpoint time for every path at
   every depth, including files inside housekeeping directories (.git, .venv,
   __pycache__, dist, node_modules, ...) that lie below the top level, which
   must be neither altered nor lost. *)

C34_RollbackStep ==
    RolledBack
       => /\ DOMAIN ws' = DOMAIN AtCheckpoint
          /\ \A p \in DOMAIN AtCheckpoint : p \in DOMAIN ws' /\ ws'[p] = AtCheckpoint[p]

C34_RollbackIdentity == [][C34_RollbackStep]_vars

----------------------------------------------------------------------------
(* C35: within one gate-run snapshot all finding ids are pairwise distinct,
   for every combination of lint violations, typecheck diagnostics, failing
   tests and fallback findings, so that each inferred hint and each priority
   action, which refer to a finding by id only, identifies exactly one
   finding. *)

C35_DistinctIds ==
    HasRun
       => \A i, j \in 1..Len(Snapshot.findings) :
             i # j => Snapshot.findings[i].id # Snapshot.findings[j].id

----------------------------------------------------------------------------
(* C36: after any sequence of repair sessions run in the same workspace, the
   terminal artifacts on disk reflect the most recent session only:
   escalation.json exists only if the most recent session escalated and
   repair-report.json exists only if the most recent session converged, so a
   reader of the state directory never sees an escalation record next to a
   converged result. *)

C36_LatestSessionOnly ==
    Done
       => /\ pygate_files.escalation # NoFile => Escalated
          /\ pygate_files.repair_report # NoFile => Converged
          /\ ~(pygate_files.escalation # NoFile /\ pygate_files.repair_report # NoFile)

----------------------------------------------------------------------------
(* C37: for every policy value, including abort_on_no_improvement <= 0, the
   stagnation escalation NO_IMPROVEMENT is raised only at the end of an
   attempt that did not strictly reduce the finding count: an attempt
   recorded with improved = true is never immediately followed by a
   stagnation escalation. *)

C37_NoAbortAfterImprovement ==
    StagnationAbort
       => /\ attempts # <<>>
          /\ ~LastAttempt.improved
          /\ LastAttempt.after_findings >= LastAttempt.before_findings
          /\ no_improvement >= 1

====
